---- MODULE Spec2Model ----
(***************************************************************************)
(* Assetman API: the status / assignment lifecycle of app/main.py behind   *)
(* the role gate of app/auth.py, over the itam.assets and                  *)
(* itam.asset_assignments tables.                                          *)
(***************************************************************************)
EXTENDS Integers, Sequences, FiniteSets, TLC

\* ------------------------------------------------------------------ bounds
MaxAssets == 1
MaxAssignments == 2
MaxTicks == 1
\* the tables GET /assets is queried on
MaxListAssets == 2
MaxListAssignments == 2

\* ------------------------------------------------------- optional values
\* Python None / SQL NULL is the empty tuple, a present value v is <<v>>.
None == <<>>
Some(v) == <<v>>
Val(o) == o[1]

\* -------------------------------------------------------------- constants
TOKEN_TTL_SECONDS == 60 * 60 * 12

\* the table with in_stock also listed for repair
ALLOWED_STATUS_TRANSITIONS_repair_to_stock ==
  [in_stock |-> {"in_use", "repair", "retired"},
   in_use   |-> {"in_stock", "repair", "retired"},
   repair   |-> {"in_use", "in_stock", "retired"},
   retired  |-> {}]

ALLOWED_STATUS_TRANSITIONS ==
  [in_stock |-> {"in_use", "repair", "retired"},
   in_use   |-> {"in_stock", "repair", "retired"},
   repair   |-> {"in_use", "retired"},
   retired  |-> {}]

\* the lookup with every status as the default: .get(name, all names)
AllowedFrom_default_all(name) ==
  IF name \in DOMAIN ALLOWED_STATUS_TRANSITIONS
  THEN ALLOWED_STATUS_TRANSITIONS[name]
  ELSE {"in_stock", "in_use", "repair", "retired", "lost"}

\* ALLOWED_STATUS_TRANSITIONS.get(name, set())
AllowedFrom(name) ==
  IF name \in DOMAIN ALLOWED_STATUS_TRANSITIONS
  THEN ALLOWED_STATUS_TRANSITIONS[name]
  ELSE {}

\* rows of itam.asset_status as seed_data.py inserts them (serial ids 1..4)
SeedStatuses == <<"in_use", "in_stock", "repair", "retired">>

\* APP_SECRET_KEY, or the development default
_secret_key == "dev-secret-key"

\* configured users (username -> role); "guest" is a role APP_USERS may name
\* that no endpoint lists
Users == [admin |-> "admin", operator |-> "operator", viewer |-> "viewer",
          guest |-> "guest"]

\* the clock of the first modelled request: the service has been up for one
\* token lifetime, so a token issued at time 0 is at its last valid second
StartTime == TOKEN_TTL_SECONDS
Times == StartTime .. (StartTime + MaxTicks)

VARIABLES
  asset_status,     \* itam.asset_status: status_id -> name
  assets,           \* itam.assets: asset_id -> row
  asset_seq,        \* last value of the asset_id sequence
  assignments,      \* itam.asset_assignments: assignment_id -> row
  assignment_seq,   \* last value of the assignment_id sequence
  now,              \* wall clock, seconds: time.time() and SQL now()
  resp,             \* the response to the last finished request
  txn,              \* in-flight transactions of concurrently handled requests
  env,              \* os.environ: APP_USERS and APP_DEMO as the service reads them
  itam,             \* committed tables of schema itam: table name -> 1 if it holds a row, else 0
  apply,            \* apply_schema.main: its position and its open transaction
  split             \* schema.sql as read, and the lists split_sql returned for it

vars == <<asset_status, assets, asset_seq, assignments, assignment_seq, now, resp, txn, env,
          itam, apply, split>>
db == <<asset_status, assets, asset_seq, assignments, assignment_seq>>

\* ------------------------------------------------------------------- auth
\* hmac.new(key, payload, sha256).digest(): one digest per (key, payload);
\* dot tells whether the 32 digest bytes contain 0x2E ('.')
hmac_digest(key, payload, dot) == [key |-> key, msg |-> payload, dot |-> dot]

\* create_token at time t; dot is the property of the digest bytes
create_token(username, role, t, dot) ==
  LET payload == <<username, role, t + TOKEN_TTL_SECONDS>>
  IN [payload |-> payload, sig |-> hmac_digest(_secret_key, payload, dot)]

User(username, role) == [username |-> username, role |-> role]

\* raw.rsplit(b".", 1) cuts at the last '.', which lies inside the signature
\* when the digest has a 0x2E byte: the recomputed digest then never matches
_verify_token(token, t) ==
  IF token.sig.dot THEN None
  ELSE IF token.sig # hmac_digest(_secret_key, token.payload, FALSE) THEN None
  ELSE IF token.payload[3] < t THEN None
  ELSE Some(User(token.payload[1], token.payload[2]))

\* a dependency either yields the user or raises an HTTPException of its own
Pass(user) == [ok |-> TRUE, resp |-> <<>>, user |-> Some(user)]
Deny(by, code, text) ==
  [ok |-> FALSE, resp |-> [op |-> by, code |-> code, detail |-> <<text>>], user |-> None]

get_current_user(bearer, t) ==
  IF bearer = None THEN Deny("get_current_user", 401, "Not authenticated")
  ELSE LET user == _verify_token(Val(bearer), t)
       IN IF user = None THEN Deny("get_current_user", 401, "Invalid or expired token")
          ELSE Pass(Val(user))

require_role(allowed, bearer, t) ==
  LET got == get_current_user(bearer, t)
  IN IF ~got.ok THEN got
     ELSE IF Val(got.user).role \notin allowed THEN Deny("require_role", 403, "Forbidden")
     ELSE got

\* the lists with delete_asset given the write endpoints' list
EndpointRoles_operator_deletes ==
  [list_assets            |-> {"admin", "operator", "viewer"},
   list_asset_assignments |-> {"admin", "operator", "viewer"},
   lookups                |-> {"admin", "operator", "viewer"},
   create_asset           |-> {"admin", "operator"},
   update_asset           |-> {"admin", "operator"},
   delete_asset           |-> {"admin", "operator"},
   create_assignment      |-> {"admin", "operator"},
   update_assignment      |-> {"admin", "operator"},
   delete_assignment      |-> {"admin"}]

\* the allowed-role list each endpoint passes to require_role
EndpointRoles ==
  [list_assets            |-> {"admin", "operator", "viewer"},
   list_asset_assignments |-> {"admin", "operator", "viewer"},
   lookups                |-> {"admin", "operator", "viewer"},
   create_asset           |-> {"admin", "operator"},
   update_asset           |-> {"admin", "operator"},
   delete_asset           |-> {"admin"},
   create_assignment      |-> {"admin", "operator"},
   update_assignment      |-> {"admin", "operator"},
   delete_assignment      |-> {"admin"}]

\* the Authorization headers the requests are drawn from
Bearers ==
  {None,
   Some(create_token("admin", Users.admin, StartTime, FALSE)),
   Some(create_token("operator", Users.operator, 0, FALSE)),
   Some(create_token("viewer", Users.viewer, StartTime, FALSE)),
   Some(create_token("guest", Users.guest, StartTime, FALSE)),
   Some([payload |-> <<"admin", "admin", StartTime + TOKEN_TTL_SECONDS>>,
         sig |-> hmac_digest("not-the-key",
                             <<"admin", "admin", StartTime + TOKEN_TTL_SECONDS>>, FALSE)])}

\* -------------------------------------------------------------- responses
Response(op, code, detail) == [op |-> op, code |-> code, detail |-> detail]

\* db_error(exc): 400 with the driver's message
db_error(op) == Response(op, 400, <<"storage failure">>)

\* RequestValidationError raised for a body the pydantic model rejects
validation_error(op, text) == Response(op, 422, <<"validation", text>>)

CannotTransition(from, to) == <<"Cannot transition from", from, "to", to>>

\* ------------------------------------------------------------ lifecycle
\* the lookup answering in_stock for an id no status row has
get_status_name_unknown_is_in_stock(status_id) ==
  IF status_id \in DOMAIN asset_status THEN Some(asset_status[status_id])
  ELSE Some("in_stock")

\* the lookup answering retired for an id no status row has
get_status_name_unknown_is_retired(status_id) ==
  IF status_id \in DOMAIN asset_status THEN Some(asset_status[status_id])
  ELSE Some("retired")

\* get_status_name: the name of a status row, None where the handler raises
\* 400 'Invalid status_id'
get_status_name(status_id) ==
  IF status_id \in DOMAIN asset_status THEN Some(asset_status[status_id]) ELSE None

\* the lookup answering in_stock for an asset that is not stored
get_asset_status_missing_is_in_stock(asset_id) ==
  IF asset_id \in DOMAIN assets /\ assets[asset_id].status_id \in DOMAIN asset_status
  THEN Some(<<assets[asset_id].status_id, asset_status[assets[asset_id].status_id]>>)
  ELSE Some(<<2, "in_stock">>)

\* get_asset_status: assets JOIN asset_status, None where the handler raises
\* 404 'Asset not found'
get_asset_status(asset_id) ==
  IF asset_id \in DOMAIN assets /\ assets[asset_id].status_id \in DOMAIN asset_status
  THEN Some(<<assets[asset_id].status_id, asset_status[assets[asset_id].status_id]>>)
  ELSE None

\* the guard with the self-transition test dropped for an empty allowed set
status_change_rejected_unless_terminal(current_status_name, new_status_name) ==
  /\ AllowedFrom(current_status_name) # {}
  /\ new_status_name \notin AllowedFrom(current_status_name)
  /\ new_status_name # current_status_name

\* update_asset's guard: new_status_name not in allowed and
\* new_status_name != current_status_name raises
status_change_rejected(current_status_name, new_status_name) ==
  /\ new_status_name \notin AllowedFrom(current_status_name)
  /\ new_status_name # current_status_name

\* the guard comparing with a name no status row has
asset_is_retired_misspelt(status_name) == status_name = "Retired"

\* create_assignment's guard: status_name == 'retired' raises
asset_is_retired(status_name) == status_name = "retired"

\* ------------------------------------------------------------- storage
\* foreign key assets.status_id -> asset_status
fk_status(status_id) == status_id \in DOMAIN asset_status

\* a failed statement whose effects stay
rollback_missing(before, written) == written

\* conn.rollback(): the tables as they were before the transaction wrote
rollback(before, written) == before

\* DELETE of an asset: its assignments go with it
cascade_assignments(asset_id) ==
  [i \in {j \in DOMAIN assignments : assignments[j].asset_id # asset_id} |-> assignments[i]]

\* ---------------------------------------------------------------- outcomes
\* What a handler does with a request in the current state: the response it
\* returns and the tables as its transaction leaves them.
Outcome(r, a, aseq, g, gseq) ==
  [resp |-> r, assets |-> a, asset_seq |-> aseq,
   assignments |-> g, assignment_seq |-> gseq]

\* a request that raises before any statement that writes
Reject(r) == Outcome(r, assets, asset_seq, assignments, assignment_seq)

\* ------------------------------------------------------------ POST /assets
create_asset(payload, bearer, db_fails) ==
  LET op == "create_asset"
      gate == require_role(EndpointRoles.create_asset, bearer, now)
      asset_id == asset_seq + 1
      row == [status_id |-> payload.status_id, description |-> payload.description]
      written == [i \in DOMAIN assets \cup {asset_id} |->
                    IF i = asset_id THEN row ELSE assets[i]]
  IN IF ~gate.ok THEN Reject(gate.resp)
     ELSE IF db_fails \/ ~fk_status(payload.status_id)
     THEN Outcome(db_error(op), rollback(assets, written), asset_seq,
                  assignments, assignment_seq)
     ELSE Outcome(Response(op, 201, <<"asset_id", asset_id>>), written, asset_id,
                  assignments, assignment_seq)

\* -------------------------------------------------------- PUT /assets/{id}
\* AssetUpdate.ensure_any_field
ensure_any_field(payload) == \E f \in DOMAIN payload : payload[f] # None

\* payload.model_dump(exclude_none=True) of an AssetUpdate
asset_update_data(payload) ==
  [f \in {g \in DOMAIN payload : payload[g] # None} |-> payload[f]]

\* an UPDATE that sets status_id to in_stock when the payload names none
update_asset_row_resets_status(row, data) ==
  [status_id   |-> IF "status_id" \in DOMAIN data THEN Val(data.status_id) ELSE 2,
   description |-> IF "description" \in DOMAIN data THEN data.description
                   ELSE row.description]

\* UPDATE itam.assets SET <col = value for the columns of data>
update_asset_row(row, data) ==
  [status_id   |-> IF "status_id" \in DOMAIN data THEN Val(data.status_id)
                   ELSE row.status_id,
   description |-> IF "description" \in DOMAIN data THEN data.description
                   ELSE row.description]

update_asset(asset_id, payload, bearer, db_fails) ==
  LET op == "update_asset"
      gate == require_role(EndpointRoles.update_asset, bearer, now)
      data == asset_update_data(payload)
      current == get_asset_status(asset_id)
      current_status_name == Val(current)[2]
      new_status == get_status_name(Val(data.status_id))
      written == IF asset_id \in DOMAIN assets
                 THEN [assets EXCEPT ![asset_id] = update_asset_row(@, data)]
                 ELSE assets
  IN IF ~gate.ok THEN Reject(gate.resp)
     ELSE IF ~ensure_any_field(payload)
     THEN Reject(validation_error(op, "No fields provided for update"))
     ELSE IF DOMAIN data = {}
     THEN Reject(Response(op, 400, <<"No fields to update">>))
     ELSE IF current = None
     THEN Reject(Response(op, 404, <<"Asset not found">>))
     ELSE IF "status_id" \in DOMAIN data /\ new_status = None
     THEN Reject(Response(op, 400, <<"Invalid status_id">>))
     ELSE IF /\ "status_id" \in DOMAIN data
             /\ status_change_rejected(current_status_name, Val(new_status))
     THEN Reject(Response(op, 400,
                          CannotTransition(current_status_name, Val(new_status))))
     ELSE IF db_fails
     THEN Outcome(db_error(op), rollback(assets, written), asset_seq,
                  assignments, assignment_seq)
     ELSE IF asset_id \notin DOMAIN assets
     THEN Outcome(Response(op, 404, <<"Asset not found">>),
                  rollback(assets, written), asset_seq, assignments, assignment_seq)
     ELSE Outcome(Response(op, 200, <<"asset_id", asset_id>>), written, asset_seq,
                  assignments, assignment_seq)

\* ----------------------------------------------------- DELETE /assets/{id}
delete_asset(asset_id, bearer, db_fails) ==
  LET op == "delete_asset"
      gate == require_role(EndpointRoles.delete_asset, bearer, now)
      written == [i \in DOMAIN assets \ {asset_id} |-> assets[i]]
  IN IF ~gate.ok THEN Reject(gate.resp)
     ELSE IF db_fails
     THEN Outcome(db_error(op), rollback(assets, written), asset_seq,
                  assignments, assignment_seq)
     ELSE IF asset_id \notin DOMAIN assets
     THEN Reject(Response(op, 404, <<"Asset not found">>))
     ELSE Outcome(Response(op, 204, <<"no content">>), written, asset_seq,
                  cascade_assignments(asset_id), assignment_seq)

\* ------------------------------------------------------ POST /assignments
\* the target check asking for a person
ensure_target_person_only(payload) == payload.person_id # None

\* AssignmentCreate.ensure_target
ensure_target(payload) == ~(payload.person_id = None /\ payload.location_id = None)

\* the range check with equal timestamps let through
ensure_range_equal_allowed(payload) ==
  ~(/\ payload.assigned_to # None
    /\ payload.assigned_from # None
    /\ Val(payload.assigned_to) < Val(payload.assigned_from))

\* AssignmentCreate.ensure_range
ensure_range(payload) ==
  ~(/\ payload.assigned_to # None
    /\ payload.assigned_from # None
    /\ Val(payload.assigned_to) <= Val(payload.assigned_from))

\* the row with the payload's assigned_to left out of the INSERT
assignment_row_always_open(payload, t) ==
  [asset_id      |-> payload.asset_id,
   person_id     |-> payload.person_id,
   location_id   |-> payload.location_id,
   assigned_from |-> IF payload.assigned_from = None THEN Some(t)
                     ELSE payload.assigned_from,
   assigned_to   |-> None,
   purpose       |-> payload.purpose]

\* the row the INSERT stores: assigned_from is COALESCE(%s, now())
assignment_row(payload, t) ==
  [asset_id      |-> payload.asset_id,
   person_id     |-> payload.person_id,
   location_id   |-> payload.location_id,
   assigned_from |-> IF payload.assigned_from = None THEN Some(t)
                     ELSE payload.assigned_from,
   assigned_to   |-> payload.assigned_to,
   purpose       |-> payload.purpose]

\* an INSERT that also closes the open assignments of the same asset
insert_assignment_closing_prior(table, assignment_id, row) ==
  [i \in DOMAIN table \cup {assignment_id} |->
     IF i = assignment_id THEN row
     ELSE IF table[i].asset_id = row.asset_id /\ table[i].assigned_to = None
     THEN [table[i] EXCEPT !.assigned_to = row.assigned_from]
     ELSE table[i]]

\* INSERT INTO itam.asset_assignments: one new row, the others as they are
insert_assignment(table, assignment_id, row) ==
  [i \in DOMAIN table \cup {assignment_id} |->
     IF i = assignment_id THEN row ELSE table[i]]

create_assignment(payload, bearer, db_fails) ==
  LET op == "create_assignment"
      gate == require_role(EndpointRoles.create_assignment, bearer, now)
      current == get_asset_status(payload.asset_id)
      status_name == Val(current)[2]
      assignment_id == assignment_seq + 1
      written == insert_assignment(assignments, assignment_id,
                                   assignment_row(payload, now))
  IN IF ~gate.ok THEN Reject(gate.resp)
     ELSE IF ~ensure_target(payload)
     THEN Reject(validation_error(op, "Either person_id or location_id must be provided"))
     ELSE IF ~ensure_range(payload)
     THEN Reject(validation_error(op, "assigned_to must be greater than assigned_from"))
     ELSE IF current = None
     THEN Reject(Response(op, 404, <<"Asset not found">>))
     ELSE IF asset_is_retired(status_name)
     THEN Reject(Response(op, 400, <<"Asset is retired">>))
     ELSE IF db_fails
     THEN Outcome(db_error(op), assets, asset_seq,
                  rollback(assignments, written), assignment_seq)
     ELSE Outcome(Response(op, 201, <<"assignment_id", assignment_id>>),
                  assets, asset_seq, written, assignment_id)

\* --------------------------------------------------- PUT /assignments/{id}
\* the check asking for assigned_to
ensure_any_assigned_to_only(payload) == payload.assigned_to # None

\* AssignmentUpdate.ensure_any
ensure_any(payload) == \E f \in DOMAIN payload : payload[f] # None

\* the dump with the null fields kept: model_dump()
assignment_update_data_nulls_kept(payload) == [f \in DOMAIN payload |-> payload[f]]

\* payload.model_dump(exclude_none=True) of an AssignmentUpdate
assignment_update_data(payload) ==
  [f \in {g \in DOMAIN payload : payload[g] # None} |-> payload[f]]

\* UPDATE itam.asset_assignments SET <col = value for the columns of data>
update_assignment_row(row, data) ==
  [c \in DOMAIN row |-> IF c \in DOMAIN data THEN data[c] ELSE row[c]]

update_assignment(assignment_id, payload, bearer, db_fails) ==
  LET op == "update_assignment"
      gate == require_role(EndpointRoles.update_assignment, bearer, now)
      data == assignment_update_data(payload)
      written == IF assignment_id \in DOMAIN assignments
                 THEN [assignments EXCEPT
                         ![assignment_id] = update_assignment_row(@, data)]
                 ELSE assignments
  IN IF ~gate.ok THEN Reject(gate.resp)
     ELSE IF ~ensure_any(payload)
     THEN Reject(validation_error(op, "No fields provided for update"))
     ELSE IF DOMAIN data = {}
     THEN Reject(Response(op, 400, <<"No fields to update">>))
     ELSE IF db_fails
     THEN Outcome(db_error(op), assets, asset_seq,
                  rollback(assignments, written), assignment_seq)
     ELSE IF assignment_id \notin DOMAIN assignments
     THEN Reject(Response(op, 404, <<"Assignment not found">>))
     ELSE Outcome(Response(op, 200, <<"assignment_id", assignment_id>>),
                  assets, asset_seq, written, assignment_seq)

\* ------------------------------------------------ DELETE /assignments/{id}
delete_assignment(assignment_id, bearer, db_fails) ==
  LET op == "delete_assignment"
      gate == require_role(EndpointRoles.delete_assignment, bearer, now)
      written == [i \in DOMAIN assignments \ {assignment_id} |-> assignments[i]]
  IN IF ~gate.ok THEN Reject(gate.resp)
     ELSE IF db_fails
     THEN Outcome(db_error(op), assets, asset_seq,
                  rollback(assignments, written), assignment_seq)
     ELSE IF assignment_id \notin DOMAIN assignments
     THEN Reject(Response(op, 404, <<"Assignment not found">>))
     ELSE Outcome(Response(op, 204, <<"no content">>), assets, asset_seq,
                  written, assignment_seq)

\* ------------------------------------------------------------- GET /assets
\* the assignments the listing's LEFT JOIN matches to an asset:
\* aa.asset_id = a.asset_id AND aa.assigned_to IS NULL
open_assignments(asset_id) ==
  {i \in DOMAIN assignments :
     assignments[i].asset_id = asset_id /\ assignments[i].assigned_to = None}

\* the joined rows of the unfiltered listing, each the pair of an asset and the
\* assignment matched to it (None where the LEFT JOIN matched nothing)
list_assets_join ==
  UNION {IF open_assignments(a) = {}
         THEN {<<a, None>>}
         ELSE {<<a, Some(i)>> : i \in open_assignments(a)} :
         a \in {b \in DOMAIN assets : assets[b].status_id \in DOMAIN asset_status}}

\* the columns of one listed row
list_assets_row(pair) ==
  LET a == pair[1]
      m == pair[2]
  IN [asset_id      |-> a,
      status        |-> asset_status[assets[a].status_id],
      description   |-> assets[a].description,
      assigned_from |-> IF m = None THEN None ELSE assignments[Val(m)].assigned_from,
      assigned_to   |-> IF m = None THEN None ELSE assignments[Val(m)].assigned_to,
      person        |-> IF m = None THEN None ELSE assignments[Val(m)].person_id,
      location      |-> IF m = None THEN None ELSE assignments[Val(m)].location_id]

list_assets(bearer) ==
  LET op == "list_assets"
      gate == require_role(EndpointRoles.list_assets, bearer, now)
  IN IF ~gate.ok THEN Reject(gate.resp)
     ELSE Reject(Response(op, 200, <<"rows", Cardinality(list_assets_join)>>))

\* GET /assets/{id}/assignments
list_asset_assignments(asset_id, bearer) ==
  LET op == "list_asset_assignments"
      gate == require_role(EndpointRoles.list_asset_assignments, bearer, now)
      rows == {i \in DOMAIN assignments : assignments[i].asset_id = asset_id}
  IN IF ~gate.ok THEN Reject(gate.resp)
     ELSE Reject(Response(op, 200, <<"rows", Cardinality(rows)>>))

\* GET /lookups
lookups(bearer) ==
  LET op == "lookups"
      gate == require_role(EndpointRoles.lookups, bearer, now)
  IN IF ~gate.ok THEN Reject(gate.resp)
     ELSE Reject(Response(op, 200, <<"statuses", Len(asset_status)>>))

\* ---------------------------------------------------------------- actions
\* a request handled from start to commit with no other request in between
Handle(o) ==
  /\ resp' = o.resp
  /\ assets' = o.assets
  /\ asset_seq' = o.asset_seq
  /\ assignments' = o.assignments
  /\ assignment_seq' = o.assignment_seq
  /\ UNCHANGED <<asset_status, now, txn, env, itam, apply, split>>

\* ------------------------------------------------------------------ clock
Tick ==
  /\ now < StartTime + MaxTicks
  /\ now' = now + 1
  /\ UNCHANGED <<asset_status, assets, asset_seq, assignments, assignment_seq, resp, txn, env, itam, apply, split>>

\* ----------------------------------------------------------------- inputs
AssetIdInputs == 1 .. (MaxAssets + 1)
AssignmentIdInputs == 1 .. (MaxAssignments + 1)
\* the four seeded status ids and one id no status row has
StatusIdInputs == (DOMAIN SeedStatuses) \cup {Len(SeedStatuses) + 5}
Descriptions == {None, Some("d")}
Purposes == {None}
OptionalTimes == {None} \cup {Some(t) : t \in Times}
\* <<person_id, location_id>>: person 1 exists
Targets == {<<Some(1), None>>, <<None, None>>}

AssetCreatePayloads ==
  [status_id : StatusIdInputs, description : Descriptions]
AssetUpdatePayloads ==
  [status_id : {None} \cup {Some(s) : s \in StatusIdInputs}, description : Descriptions]
AssignmentCreatePayloads ==
  {[asset_id |-> a, person_id |-> tg[1], location_id |-> tg[2],
    assigned_from |-> f, assigned_to |-> t, purpose |-> p] :
   a \in AssetIdInputs, tg \in Targets, f \in OptionalTimes, t \in OptionalTimes,
   p \in Purposes}
AssignmentUpdatePayloads ==
  [assigned_to : OptionalTimes, purpose : Purposes]

\* the callers of the concurrently handled requests, one request each
Clients == {"c1", "c2"}

\* -------------------------------------------------------------------- spec
\* the environment with neither APP_USERS nor APP_DEMO set: _load_users reads
\* DEFAULT_USERS and is_demo_mode reads "1"
DefaultEnviron ==
  [APP_USERS |-> <<User("admin", "admin"), User("operator", "operator"),
                   User("viewer", "viewer")>>,
   APP_DEMO  |-> None]

\* the tables of schema itam the handlers' statements name, as the seed leaves
\* them: asset_status holds rows
SeededTables == [t \in {"asset_status", "assets", "asset_assignments"} |->
                   IF t = "asset_status" THEN 1 ELSE 0]

\* apply_schema.main before it runs: nothing read, no statement executed
NotStarted ==
  [pc |-> "start", has_tables |-> FALSE, has_data |-> FALSE, view |-> <<>>,
   executed |-> 0, in_txn |-> FALSE, dropped_rows |-> FALSE]

\* schema.sql not read yet: no text, no list from either copy of split_sql
NotSplit == [sql_text |-> <<>>, statements |-> None, migration |-> None]

NoResponse == Response("none", 0, <<"none">>)
Idle == [stage |-> "idle"]

Init ==
  /\ asset_status = SeedStatuses
  /\ assets = [i \in {} |-> 0]
  /\ asset_seq = 0
  /\ assignments = [i \in {} |-> 0]
  /\ assignment_seq = 0
  /\ now = StartTime
  /\ resp = NoResponse
  /\ txn = [c \in Clients |-> Idle]
  /\ env = DefaultEnviron
  /\ itam = SeededTables
  /\ apply = NotStarted
  /\ split = NotSplit

\* The role dependency runs before the body is validated and before the handler:
\* a request the gate denies is answered the same whatever its body, so one
\* body stands for all of them.
Admitted(op, bearer) == require_role(EndpointRoles[op], bearer, now).ok
BodiesFor(op, bearer, bodies) ==
  IF Admitted(op, bearer) THEN bodies ELSE {CHOOSE p \in bodies : TRUE}

POST_assets ==
  /\ asset_seq < MaxAssets
  /\ \E b \in Bearers, f \in BOOLEAN :
       \E p \in BodiesFor("create_asset", b, AssetCreatePayloads) :
         Handle(create_asset(p, b, f))

PUT_assets ==
  \E a \in AssetIdInputs, b \in Bearers, f \in BOOLEAN :
    \E p \in BodiesFor("update_asset", b, AssetUpdatePayloads) :
      Handle(update_asset(a, p, b, f))

DELETE_assets ==
  \E a \in AssetIdInputs, b \in Bearers, f \in BOOLEAN : Handle(delete_asset(a, b, f))

POST_assignments ==
  /\ assignment_seq < MaxAssignments
  /\ \E b \in Bearers, f \in BOOLEAN :
       \E p \in BodiesFor("create_assignment", b, AssignmentCreatePayloads) :
         Handle(create_assignment(p, b, f))

PUT_assignments ==
  \E i \in AssignmentIdInputs, b \in Bearers, f \in BOOLEAN :
    \E p \in BodiesFor("update_assignment", b, AssignmentUpdatePayloads) :
      Handle(update_assignment(i, p, b, f))

DELETE_assignments ==
  \E i \in AssignmentIdInputs, b \in Bearers, f \in BOOLEAN :
    Handle(delete_assignment(i, b, f))

GET_assets == \E b \in Bearers : Handle(list_assets(b))

GET_asset_assignments ==
  \E a \in AssetIdInputs, b \in Bearers : Handle(list_asset_assignments(a, b))

GET_lookups == \E b \in Bearers : Handle(lookups(b))

Next ==
  \/ Tick
  \/ POST_assets
  \/ PUT_assets
  \/ DELETE_assets
  \/ POST_assignments
  \/ PUT_assignments
  \/ DELETE_assignments
  \/ GET_assets
  \/ GET_asset_assignments
  \/ GET_lookups

Spec == Init /\ [][Next]_vars

\* ------------------------------------------- concurrently handled requests
\* Each request runs in its own connection and transaction (db.get_connection).
\* update_asset reads the committed status and validates (its SELECTs), and
\* later issues its UPDATE and commits; other requests may commit in between.
AdminBearer == Some(create_token("admin", Users.admin, StartTime, FALSE))
StatusOnlyPayloads ==
  {p \in AssetUpdatePayloads : p.status_id # None /\ p.description = None}

\* update_asset up to its last read: the checks against the committed state
update_asset_begin(asset_id, payload, bearer) ==
  LET o == update_asset(asset_id, payload, bearer, FALSE)
  IN IF o.resp.code # 200
     THEN [stage |-> "rejected", asset_id |-> asset_id, resp |-> o.resp]
     ELSE [stage |-> "validated", asset_id |-> asset_id,
           data |-> asset_update_data(payload),
           seen |-> Val(get_asset_status(asset_id))[2]]

\* a commit that checks the transition again, against the committed status
update_asset_commit_revalidated(t, db_fails) ==
  LET op == "update_asset"
      written == IF t.asset_id \in DOMAIN assets
                 THEN [assets EXCEPT ![t.asset_id] = update_asset_row(@, t.data)]
                 ELSE assets
      committed == Val(get_asset_status(t.asset_id))[2]
      new_status == Val(get_status_name(Val(t.data.status_id)))
  IN IF t.asset_id \notin DOMAIN assets
     THEN Reject(Response(op, 404, <<"Asset not found">>))
     ELSE IF status_change_rejected(committed, new_status)
     THEN Reject(Response(op, 400, CannotTransition(committed, new_status)))
     ELSE IF db_fails
     THEN Outcome(db_error(op), assets, asset_seq, assignments, assignment_seq)
     ELSE Outcome(Response(op, 200, <<"asset_id", t.asset_id>>), written, asset_seq,
                  assignments, assignment_seq)

\* update_asset from its UPDATE to the commit, for a request that passed the checks
update_asset_commit(t, db_fails) ==
  LET op == "update_asset"
      written == IF t.asset_id \in DOMAIN assets
                 THEN [assets EXCEPT ![t.asset_id] = update_asset_row(@, t.data)]
                 ELSE assets
  IN IF db_fails
     THEN Outcome(db_error(op), rollback(assets, written), asset_seq,
                  assignments, assignment_seq)
     ELSE IF t.asset_id \notin DOMAIN assets
     THEN Outcome(Response(op, 404, <<"Asset not found">>),
                  rollback(assets, written), asset_seq, assignments, assignment_seq)
     ELSE Outcome(Response(op, 200, <<"asset_id", t.asset_id>>), written, asset_seq,
                  assignments, assignment_seq)

PUT_assets_begin ==
  \E c \in Clients, a \in AssetIdInputs, p \in StatusOnlyPayloads :
    /\ txn[c].stage = "idle"
    /\ LET t == update_asset_begin(a, p, AdminBearer)
       IN /\ txn' = [txn EXCEPT ![c] = t]
          /\ resp' = IF t.stage = "rejected" THEN t.resp ELSE resp
    /\ UNCHANGED <<asset_status, assets, asset_seq, assignments, assignment_seq, now, env, itam, apply, split>>

\* the committed status the UPDATE replaces and the one it leaves are kept with
\* the finished request
PUT_assets_commit ==
  \E c \in Clients, f \in BOOLEAN :
    /\ txn[c].stage = "validated"
    /\ LET t == txn[c]
           o == update_asset_commit(t, f)
       IN /\ resp' = o.resp
          /\ assets' = o.assets
          /\ txn' = [txn EXCEPT ![c] =
                       [stage |-> "done", asset_id |-> t.asset_id, seen |-> t.seen,
                        code |-> o.resp.code,
                        overwrote |-> IF t.asset_id \in DOMAIN assets
                                      THEN asset_status[assets[t.asset_id].status_id]
                                      ELSE "none",
                        wrote |-> IF t.asset_id \in DOMAIN o.assets
                                  THEN asset_status[o.assets[t.asset_id].status_id]
                                  ELSE "none"]]
    /\ UNCHANGED <<asset_status, asset_seq, assignments, assignment_seq, now, env, itam, apply, split>>

NextConc ==
  \/ POST_assets
  \/ PUT_assets_begin
  \/ PUT_assets_commit

SpecConc == Init /\ [][NextConc]_vars

\* --------------------------------------------- GET /assets with a query
\* The query parameters of list_assets: status (a set of names, empty when the
\* parameter is absent), owner_org_unit_id, assigned and sort. A sort value is
\* its run of leading '-' characters followed by the rest of the string.
SORT_COLUMNS ==
  [asset_tag |-> "a.asset_tag",
   status    |-> "ast.name",
   type      |-> "atype.name",
   owner     |-> "ou.name",
   location  |-> "loc.name",
   updated   |-> "a.updated_at"]

SortValue(dashes, rest) == [dashes |-> dashes, rest |-> rest]

\* sort.lstrip('-')
sort_lstrip(sort) == sort.rest

\* sort.startswith('-')
sort_startswith_dash(sort) == sort.dashes > 0

\* the column an unknown key falls back to, taken to be a.updated_at
order_column_falls_back_to_updated(sort) ==
  IF sort_lstrip(sort) \in DOMAIN SORT_COLUMNS
  THEN SORT_COLUMNS[sort_lstrip(sort)]
  ELSE SORT_COLUMNS["updated"]

\* order = SORT_COLUMNS.get(sort.lstrip('-'), SORT_COLUMNS['asset_tag'])
order_column(sort) ==
  IF sort_lstrip(sort) \in DOMAIN SORT_COLUMNS
  THEN SORT_COLUMNS[sort_lstrip(sort)]
  ELSE SORT_COLUMNS["asset_tag"]

\* the direction with the leading '-' ignored
order_direction_always_asc(sort) == "ASC"

\* direction = 'DESC' if sort.startswith('-') else 'ASC'
order_direction(sort) == IF sort_startswith_dash(sort) THEN "DESC" ELSE "ASC"

\* the rank of a status name in the collation order of ast.name
name_rank(name) ==
  CASE name = "in_stock" -> 1
    [] name = "in_use"   -> 2
    [] name = "repair"   -> 3
    [] name = "retired"  -> 4

\* the value of an ORDER BY column in a joined row, None for SQL NULL; names
\* of types, org units and locations are ranked by their ids
order_value(pair, column) ==
  LET a == assets[pair[1]]
      m == pair[2]
  IN CASE column = "a.asset_tag"  -> Some(a.asset_tag)
       [] column = "ast.name"     -> Some(name_rank(asset_status[a.status_id]))
       [] column = "atype.name"   -> Some(a.type_id)
       [] column = "ou.name"      -> a.owner_org_unit_id
       [] column = "loc.name"     -> IF m = None THEN None
                                     ELSE assignments[Val(m)].location_id
       [] column = "a.updated_at" -> Some(a.updated_at)

\* ORDER BY <column> <direction>, a.asset_tag ASC: r is sorted strictly before
\* t. PostgreSQL puts NULL after every value in ASC and before them in DESC.
order_before(r, t, column, direction) ==
  LET x == order_value(r, column)
      y == order_value(t, column)
      less == IF x = None THEN FALSE
              ELSE IF y = None THEN TRUE
              ELSE Val(x) < Val(y)
      greater == IF y = None THEN FALSE
                 ELSE IF x = None THEN TRUE
                 ELSE Val(x) > Val(y)
  IN \/ (direction = "ASC" /\ less)
     \/ (direction = "DESC" /\ greater)
     \/ (x = y /\ assets[r[1]].asset_tag < assets[t[1]].asset_tag)

\* the assigned filter read as a truth value: if assigned: ... with no elif
where_clauses_assigned_truthy(query, pair) ==
  /\ (query.status # {}) => asset_status[assets[pair[1]].status_id] \in query.status
  /\ (query.owner_org_unit_id # None /\ Val(query.owner_org_unit_id) # 0) =>
       assets[pair[1]].owner_org_unit_id = query.owner_org_unit_id
  /\ (query.assigned = Some(TRUE)) => pair[2] # None

\* WHERE <clauses joined by AND>: a clause is added for a non-empty status
\* list, for a truthy owner_org_unit_id, and for assigned True or False
where_clauses(query, pair) ==
  /\ (query.status # {}) => asset_status[assets[pair[1]].status_id] \in query.status
  /\ (query.owner_org_unit_id # None /\ Val(query.owner_org_unit_id) # 0) =>
       assets[pair[1]].owner_org_unit_id = query.owner_org_unit_id
  /\ (query.assigned = Some(TRUE)) => pair[2] # None
  /\ (query.assigned = Some(FALSE)) => pair[2] = None

\* the joined rows the WHERE keeps
list_assets_selected(query) == {pair \in list_assets_join : where_clauses(query, pair)}

\* the arrangements of rows that agree with the ORDER BY: a row comes first
\* when no other row is sorted before it (rows the ORDER BY does not tell
\* apart come in any order)
RECURSIVE order_by(_, _, _)
order_by(rows, column, direction) ==
  IF rows = {} THEN {<<>>}
  ELSE UNION {{<<r>> \o s : s \in order_by(rows \ {r}, column, direction)} :
              r \in {x \in rows :
                       \A t \in rows : ~order_before(t, x, column, direction)}}

\* the orders cur.fetchall() can return the selected rows in
list_assets_fetchall(query) ==
  order_by(list_assets_selected(query), order_column(query.sort),
           order_direction(query.sort))

\* list_assets with its query parameters: the outcomes it can have
list_assets_query(bearer, query) ==
  LET op == "list_assets"
      gate == require_role(EndpointRoles.list_assets, bearer, now)
  IN IF ~gate.ok THEN {Reject(gate.resp)}
     ELSE {Reject(Response(op, 200, <<"rows", s>>)) : s \in list_assets_fetchall(query)}

\* ------------------------------- an assignment racing with a retirement
\* create_assignment reads the committed status and tests it (its SELECT), and
\* later issues its INSERT and commits; other requests may commit in between.
RacePayloads ==
  {p \in AssignmentCreatePayloads :
     p.person_id # None /\ p.assigned_from = None /\ p.assigned_to = None}

\* create_assignment up to its read: the checks against the committed state
create_assignment_begin(payload, bearer) ==
  LET o == create_assignment(payload, bearer, FALSE)
  IN IF o.resp.code # 201
     THEN [stage |-> "rejected", asset_id |-> payload.asset_id, resp |-> o.resp]
     ELSE [stage |-> "checked", asset_id |-> payload.asset_id, payload |-> payload,
           seen |-> Val(get_asset_status(payload.asset_id))[2]]

\* a commit that tests the committed status again
create_assignment_commit_rechecked(t, db_fails) ==
  LET op == "create_assignment"
      assignment_id == assignment_seq + 1
      written == insert_assignment(assignments, assignment_id,
                                   assignment_row(t.payload, now))
      current == get_asset_status(t.asset_id)
  IN IF current = None
     THEN Reject(Response(op, 404, <<"Asset not found">>))
     ELSE IF asset_is_retired(Val(current)[2])
     THEN Reject(Response(op, 400, <<"Asset is retired">>))
     ELSE IF db_fails
     THEN Outcome(db_error(op), assets, asset_seq,
                  rollback(assignments, written), assignment_seq)
     ELSE Outcome(Response(op, 201, <<"assignment_id", assignment_id>>),
                  assets, asset_seq, written, assignment_id)

\* create_assignment from its INSERT to the commit, for a request that passed
\* the checks; the INSERT fails when the asset row is gone
create_assignment_commit(t, db_fails) ==
  LET op == "create_assignment"
      assignment_id == assignment_seq + 1
      written == insert_assignment(assignments, assignment_id,
                                   assignment_row(t.payload, now))
  IN IF db_fails \/ t.asset_id \notin DOMAIN assets
     THEN Outcome(db_error(op), assets, asset_seq,
                  rollback(assignments, written), assignment_seq)
     ELSE Outcome(Response(op, 201, <<"assignment_id", assignment_id>>),
                  assets, asset_seq, written, assignment_id)

POST_assignments_begin ==
  \E c \in Clients, p \in RacePayloads :
    /\ txn[c].stage = "idle"
    /\ LET t == create_assignment_begin(p, AdminBearer)
       IN /\ txn' = [txn EXCEPT ![c] = t]
          /\ resp' = IF t.stage = "rejected" THEN t.resp ELSE resp
    /\ UNCHANGED <<asset_status, assets, asset_seq, assignments, assignment_seq, now, env, itam, apply, split>>

\* the status the request read and the committed one its INSERT was committed
\* under are kept with the finished request
POST_assignments_commit ==
  \E c \in Clients, f \in BOOLEAN :
    /\ txn[c].stage = "checked"
    /\ LET t == txn[c]
           o == create_assignment_commit(t, f)
       IN /\ resp' = o.resp
          /\ assignments' = o.assignments
          /\ assignment_seq' = o.assignment_seq
          /\ txn' = [txn EXCEPT ![c] =
                       [stage |-> "inserted", asset_id |-> t.asset_id, seen |-> t.seen,
                        code |-> o.resp.code,
                        committed_status |-> IF t.asset_id \in DOMAIN assets
                                             THEN asset_status[assets[t.asset_id].status_id]
                                             ELSE "none"]]
    /\ UNCHANGED <<asset_status, assets, asset_seq, now, env, itam, apply, split>>

SpecRace ==
  Init /\
  [][POST_assets
     \/ PUT_assets_begin
     \/ PUT_assets_commit
     \/ POST_assignments_begin
     \/ POST_assignments_commit]_vars

\* ------------------------------------ a status row the table does not key
\* itam.asset_status with a fifth row added in the database, under a name
\* ALLOWED_STATUS_TRANSITIONS has no key for
ExtraStatuses == SeedStatuses \o <<"lost">>
ExtraStatusIdInputs == (DOMAIN ExtraStatuses) \cup {Len(ExtraStatuses) + 5}
ExtraCreatePayloads == [status_id : ExtraStatusIdInputs, description : Descriptions]
ExtraUpdatePayloads ==
  [status_id : {None} \cup {Some(s) : s \in ExtraStatusIdInputs}, description : Descriptions]

InitExtra ==
  /\ asset_status = ExtraStatuses
  /\ assets = [i \in {} |-> 0]
  /\ asset_seq = 0
  /\ assignments = [i \in {} |-> 0]
  /\ assignment_seq = 0
  /\ now = StartTime
  /\ resp = NoResponse
  /\ txn = [c \in Clients |-> Idle]
  /\ env = DefaultEnviron
  /\ itam = SeededTables
  /\ apply = NotStarted
  /\ split = NotSplit

POST_assets_extra ==
  /\ asset_seq < MaxAssets
  /\ \E b \in Bearers, f \in BOOLEAN :
       \E p \in BodiesFor("create_asset", b, ExtraCreatePayloads) :
         Handle(create_asset(p, b, f))

PUT_assets_extra ==
  \E a \in AssetIdInputs, b \in Bearers, f \in BOOLEAN :
    \E p \in BodiesFor("update_asset", b, ExtraUpdatePayloads) :
      Handle(update_asset(a, p, b, f))

SpecExtra ==
  InitExtra /\ [][POST_assets_extra \/ PUT_assets_extra]_vars

\* ------------------------------------------- the listing on stored tables
\* The tables a query finds: assets with distinct tags (asset_tag is the
\* business key), a seeded status, one type and no owner, and assignments of
\* stored assets, open or closed, with or without a location.
ListAssetRows ==
  [status_id : {1, 2}, description : {None}, asset_tag : 1 .. MaxListAssets,
   type_id : {1}, owner_org_unit_id : {None}, updated_at : {0, 1}]

ListAssetTables ==
  UNION {{t \in [1 .. n -> ListAssetRows] :
            \A i, j \in 1 .. n : i # j => t[i].asset_tag # t[j].asset_tag} :
         n \in 0 .. MaxListAssets}

ListAssignmentRows(ids) ==
  {[asset_id |-> a, person_id |-> Some(1), location_id |-> l[1],
    assigned_from |-> Some(0), assigned_to |-> l[2], purpose |-> None] :
   a \in ids, l \in {<<None, None>>, <<Some(1), None>>, <<None, Some(1)>>}}

ListAssignmentTables(ids) ==
  UNION {[1 .. k -> ListAssignmentRows(ids)] : k \in 0 .. MaxListAssignments}

SortInputs ==
  {SortValue(d, r) : d \in 0 .. 1, r \in (DOMAIN SORT_COLUMNS) \cup {"", "bogus"}}
    \cup {SortValue(2, "updated")}

ListQueries ==
  [status : {{}, {"in_use"}}, owner_org_unit_id : {None},
   assigned : {None, Some(TRUE), Some(FALSE)}, sort : SortInputs]

\* the callers of the listing: one the gate admits and one it denies
ListBearers ==
  {None, Some(create_token("viewer", Users.viewer, StartTime, FALSE))}

InitList ==
  /\ asset_status = SeedStatuses
  /\ assets \in ListAssetTables
  /\ asset_seq = Len(assets)
  /\ assignments \in ListAssignmentTables(DOMAIN assets)
  /\ assignment_seq = Len(assignments)
  /\ now = StartTime
  /\ resp = NoResponse
  /\ txn = [c \in Clients |-> Idle]
  /\ env = DefaultEnviron
  /\ itam = SeededTables
  /\ apply = NotStarted
  /\ split = NotSplit

\* one query on the stored tables; the listing writes nothing, so the tables a
\* second query would find are the ones the first found
GET_assets_query ==
  /\ resp = NoResponse
  /\ \E b \in ListBearers :
       \E q \in BodiesFor("list_assets", b, ListQueries) :
         \E o \in list_assets_query(b, q) : Handle(o)

NextList == GET_assets_query

SpecList == InitList /\ [][NextList]_vars

\* --------------------------------------------- the listing by owning unit
\* The tables an owner query finds: assets with distinct tags, a seeded status
\* and no owner or one of two org units (org_unit_id is a serial starting at 1),
\* and no assignment.
OwnerAssetRows ==
  [status_id : {1, 2}, description : {None}, asset_tag : 1 .. MaxListAssets,
   type_id : {1}, owner_org_unit_id : {None, Some(1), Some(2)}, updated_at : {0}]

OwnerAssetTables ==
  UNION {{t \in [1 .. n -> OwnerAssetRows] :
            \A i, j \in 1 .. n : i # j => t[i].asset_tag # t[j].asset_tag} :
         n \in 0 .. MaxListAssets}

\* owner_org_unit_id: Optional[int] = Query(None): not supplied, 0, the id of a
\* unit that owns assets, and ids that own none
OwnerQueries ==
  [status : {{}}, owner_org_unit_id : {None, Some(0), Some(1), Some(2), Some(3), Some(-1)},
   assigned : {None}, sort : {SortValue(0, "asset_tag")}]

InitOwner ==
  /\ asset_status = SeedStatuses
  /\ assets \in OwnerAssetTables
  /\ asset_seq = Len(assets)
  /\ assignments = [i \in {} |-> 0]
  /\ assignment_seq = 0
  /\ now = StartTime
  /\ resp = NoResponse
  /\ txn = [c \in Clients |-> Idle]
  /\ env = DefaultEnviron
  /\ itam = SeededTables
  /\ apply = NotStarted
  /\ split = NotSplit

GET_assets_owner ==
  /\ resp = NoResponse
  /\ \E b \in ListBearers :
       \E q \in BodiesFor("list_assets", b, OwnerQueries) :
         \E o \in list_assets_query(b, q) : Handle(o)

SpecOwner ==
  InitOwner /\ [][GET_assets_owner]_vars

\* ----------------------------------------------------------------- tokens
\* _load_users() on DEFAULT_USERS: username -> password and role
_load_users ==
  [admin    |-> [password |-> "admin123", role |-> "admin"],
   operator |-> [password |-> "op123", role |-> "operator"],
   viewer   |-> [password |-> "view123", role |-> "viewer"]]

\* login and POST /auth/token: the token of a configured user who gave the
\* stored password, 401 otherwise; dot is the property of the digest bytes
login(credentials, t, dot) ==
  IF credentials = None THEN Response("login", 401, <<"Missing credentials">>)
  ELSE IF Val(credentials).username \notin DOMAIN _load_users
  THEN Response("login", 401, <<"Invalid credentials">>)
  ELSE IF _load_users[Val(credentials).username].password # Val(credentials).password
  THEN Response("login", 401, <<"Invalid credentials">>)
  ELSE Response("auth_token", 200,
                <<create_token(Val(credentials).username,
                               _load_users[Val(credentials).username].role, t, dot)>>)

\* GET /auth/me: the user the bearer token resolves to
auth_me(bearer, t) ==
  LET gate == require_role({"admin", "operator", "viewer"}, bearer, t)
  IN IF ~gate.ok THEN gate.resp
     ELSE Response("auth_me", 200, <<Val(gate.user)>>)

\* HTTP Basic credentials the logins are drawn from
Credentials ==
  {None} \cup
  {Some([username |-> u, password |-> p]) :
     u \in (DOMAIN _load_users) \cup {"nobody"},
     p \in {_load_users[v].password : v \in DOMAIN _load_users}}

\* a token with its payload or its signature changed by the bearer
AlteredTokens(token) ==
  {[token EXCEPT !.payload[1] = "root"],
   [token EXCEPT !.payload[2] = "superuser"],
   [token EXCEPT !.payload[3] = @ + 1],
   [token EXCEPT !.sig = hmac_digest("not-the-key", token.payload, token.sig.dot)],
   [token EXCEPT !.sig = hmac_digest(_secret_key, <<"root", "admin", token.payload[3]>>,
                                     token.sig.dot)]}

\* the clock readings of the token specification: the first request, one second
\* later, and the seconds around the expiry of a token issued at either
AuthTimes ==
  {StartTime, StartTime + 1, StartTime + TOKEN_TTL_SECONDS - 1,
   StartTime + TOKEN_TTL_SECONDS, StartTime + TOKEN_TTL_SECONDS + 1}

POST_auth_token ==
  /\ \E credentials \in Credentials, dot \in BOOLEAN :
       resp' = login(credentials, now, dot)
  /\ UNCHANGED <<asset_status, assets, asset_seq, assignments, assignment_seq, now, txn, env, itam, apply, split>>

\* the bearer presents the token the last login returned, as issued or altered
GET_auth_me ==
  /\ resp.op = "auth_token"
  /\ \E bearer \in {None, resp.detail} \cup {Some(a) : a \in AlteredTokens(Val(resp.detail))} :
       resp' = auth_me(bearer, now)
  /\ UNCHANGED <<asset_status, assets, asset_seq, assignments, assignment_seq, now, txn, env, itam, apply, split>>

Elapse ==
  /\ \E t \in AuthTimes : t > now /\ now' = t
  /\ UNCHANGED <<asset_status, assets, asset_seq, assignments, assignment_seq, resp, txn, env, itam, apply, split>>

NextAuth == POST_auth_token \/ GET_auth_me \/ Elapse

SpecAuth == Init /\ [][NextAuth]_vars

\* ------------------------------------------------------------- demo token
\* is_demo_mode: os.environ.get("APP_DEMO", "1") == "1"
is_demo_mode(environ) == environ.APP_DEMO = None \/ environ.APP_DEMO = Some("1")

\* demo_token and GET /auth/demo-token: 404 outside demo mode; otherwise the
\* token of the first configured user whose role is viewer, and with no such
\* user the token of the first configured user with that user's role;
\* next(iter(...)) on an empty user list raises StopIteration, answered 500
demo_token(environ, t, dot) ==
  LET users == environ.APP_USERS
      viewers == {i \in DOMAIN users : users[i].role = "viewer"}
      first == CHOOSE i \in viewers : \A j \in viewers : i <= j
  IN IF ~is_demo_mode(environ)
     THEN Response("demo_token", 404, <<"Demo mode disabled">>)
     ELSE IF viewers # {}
     THEN Response("auth_demo_token", 200,
                   <<create_token(users[first].username, users[first].role, t, dot)>>)
     ELSE IF users = <<>>
     THEN Response("auth_demo_token", 500, <<"Internal Server Error">>)
     ELSE Response("auth_demo_token", 200,
                   <<create_token(users[1].username, users[1].role, t, dot)>>)

\* the user lists APP_USERS can configure from three users, in every order
DemoUsers ==
  {User("admin", "admin"), User("operator", "operator"), User("viewer", "viewer")}
DemoUserLists ==
  UNION {{l \in [1 .. n -> DemoUsers] : \A i, j \in 1 .. n : i # j => l[i] # l[j]} :
         n \in 0 .. Cardinality(DemoUsers)}
DemoEnvirons == [APP_USERS : DemoUserLists, APP_DEMO : {None, Some("0"), Some("1")}]

InitDemo ==
  /\ asset_status = SeedStatuses
  /\ assets = [i \in {} |-> 0]
  /\ asset_seq = 0
  /\ assignments = [i \in {} |-> 0]
  /\ assignment_seq = 0
  /\ now = StartTime
  /\ resp = NoResponse
  /\ txn = [c \in Clients |-> Idle]
  /\ env \in DemoEnvirons
  /\ itam = SeededTables
  /\ apply = NotStarted
  /\ split = NotSplit

GET_auth_demo_token ==
  /\ \E dot \in BOOLEAN : resp' = demo_token(env, now, dot)
  /\ UNCHANGED <<asset_status, assets, asset_seq, assignments, assignment_seq, now, txn, env, itam, apply, split>>

\* the caller presents the demo token it was just given
POST_assets_demo ==
  /\ resp.op = "auth_demo_token" /\ resp.code = 200
  /\ asset_seq < MaxAssets
  /\ Handle(create_asset([status_id |-> 2, description |-> None], resp.detail, FALSE))

DELETE_assets_demo ==
  /\ resp.op = "auth_demo_token" /\ resp.code = 200
  /\ \E a \in AssetIdInputs : Handle(delete_asset(a, resp.detail, FALSE))

SpecDemo ==
  InitDemo /\ [][GET_auth_demo_token \/ POST_assets_demo \/ DELETE_assets_demo]_vars

\* ----------------------------------------------------------- apply_schema
\* the variables apply_schema.main does not touch
api_vars == <<asset_status, assets, asset_seq, assignments, assignment_seq, now, resp, txn, env, split>>

\* statements = split_sql(sql_text): schema.sql taken as one CREATE TABLE for
\* each table the handlers name, in the order of their references
SchemaStatements == <<"asset_status", "assets", "asset_assignments">>
SchemaTables == {SchemaStatements[k] : k \in DOMAIN SchemaStatements}
NoTables == [t \in {} |-> 0]

\* schema_has_tables: count(*) of information_schema.tables for itam > 0
schema_has_tables(tables) == DOMAIN tables # {}

\* schema_has_data: some table of itam returns a row for SELECT 1 ... LIMIT 1
schema_has_data(tables) == \E t \in DOMAIN tables : tables[t] > 0

\* the branch main takes after the two reads: return, DROP SCHEMA, or apply
main_branch(has_tables, has_data) ==
  IF has_tables /\ has_data THEN "skipped"
  ELSE IF has_tables /\ ~has_data THEN "drop"
  ELSE "apply"

\* the schema as a run can find it: absent, or with its tables, each empty or not
InitSchema ==
  /\ asset_status = SeedStatuses
  /\ assets = [i \in {} |-> 0]
  /\ asset_seq = 0
  /\ assignments = [i \in {} |-> 0]
  /\ assignment_seq = 0
  /\ now = StartTime
  /\ resp = NoResponse
  /\ txn = [c \in Clients |-> Idle]
  /\ env = DefaultEnviron
  /\ itam \in {NoTables} \cup [SchemaTables -> {0, 1}]
  /\ apply = NotStarted
  /\ split = NotSplit

\* has_tables = schema_has_tables(cur); has_data = schema_has_data(cur) if
\* has_tables else False; an exception ends the run with a rollback
main_check ==
  /\ apply.pc = "start"
  /\ \E db_fails \in BOOLEAN :
       LET has_tables == schema_has_tables(itam)
           has_data == IF has_tables THEN schema_has_data(itam) ELSE FALSE
       IN apply' = IF db_fails THEN [apply EXCEPT !.pc = "failed"]
                   ELSE [apply EXCEPT !.pc = main_branch(has_tables, has_data),
                                      !.has_tables = has_tables,
                                      !.has_data = has_data,
                                      !.view = itam]
  /\ UNCHANGED <<itam, api_vars>>

\* DROP SCHEMA IF EXISTS itam CASCADE with conn.autocommit = True: the driver
\* either commits it at once or runs it in the transaction the reads opened
\* (in_txn); dropped_rows records whether a table held a row when it ran
main_drop ==
  /\ apply.pc = "drop"
  /\ \E db_fails \in BOOLEAN, in_txn \in BOOLEAN :
       IF db_fails
       THEN /\ apply' = [apply EXCEPT !.pc = "failed"]
            /\ itam' = itam
       ELSE /\ apply' = [apply EXCEPT !.pc = "apply", !.view = NoTables,
                                      !.in_txn = in_txn,
                                      !.dropped_rows = schema_has_data(itam)]
            /\ itam' = IF in_txn THEN itam ELSE NoTables
  /\ UNCHANGED api_vars

\* for stmt in statements: cur.execute(stmt); a failing statement ends the run
\* with conn.rollback()
main_execute ==
  /\ apply.pc = "apply"
  /\ apply.executed < Len(SchemaStatements)
  /\ \E db_fails \in BOOLEAN :
       LET t == SchemaStatements[apply.executed + 1]
           written == [u \in DOMAIN apply.view \cup {t} |->
                         IF u = t THEN 0 ELSE apply.view[u]]
       IN apply' = IF db_fails \/ t \in DOMAIN apply.view
                   THEN [apply EXCEPT !.pc = "failed", !.view = rollback(itam, written)]
                   ELSE [apply EXCEPT !.executed = @ + 1, !.view = written]
  /\ UNCHANGED <<itam, api_vars>>

\* conn.commit() after the last statement
main_commit ==
  /\ apply.pc = "apply"
  /\ apply.executed = Len(SchemaStatements)
  /\ itam' = apply.view
  /\ apply' = [apply EXCEPT !.pc = "committed"]
  /\ UNCHANGED api_vars

\* the script is run once more
main_again ==
  /\ apply.pc \in {"skipped", "committed", "failed"}
  /\ apply' = NotStarted
  /\ UNCHANGED <<itam, api_vars>>

\* another session (a handler's INSERT, seed_data.py) commits a row into a
\* table; it waits while an uncommitted DROP holds the tables' locks
insert_row ==
  /\ ~(apply.pc = "apply" /\ apply.in_txn)
  /\ \E t \in DOMAIN itam : itam[t] = 0 /\ itam' = [itam EXCEPT ![t] = 1]
  /\ UNCHANGED <<apply, api_vars>>

SpecSchema ==
  InitSchema /\
  [][main_check
     \/ main_drop
     \/ main_execute
     \/ main_commit
     \/ main_again
     \/ insert_row]_vars

\* ---------------------------------------------------------------- split_sql
\* schema.sql as a string of at most MaxSqlLen characters: the statement
\* separator, the three quoting characters, a letter and a blank
MaxSqlLen == 6
SqlChars == {";", "'", "\"", "$", "a", " "}
SqlTexts == UNION {[1..n -> SqlChars] : n \in 0..MaxSqlLen}

\* str.strip(): blanks removed at both ends
RECURSIVE lstrip(_)
lstrip(s) == IF s # <<>> /\ Head(s) = " " THEN lstrip(Tail(s)) ELSE s
RECURSIVE rstrip(_)
rstrip(s) == IF s # <<>> /\ s[Len(s)] = " " THEN rstrip(SubSeq(s, 1, Len(s) - 1)) ELSE s
strip(s) == rstrip(lstrip(s))

\* sql_text.startswith(prefix, i), positions counted from 1
startswith(text, prefix, i) ==
  /\ i + Len(prefix) - 1 <= Len(text)
  /\ SubSeq(text, i, i + Len(prefix) - 1) = prefix

\* sql_text.find(ch, start), positions counted from 1; 0 where Python gives -1
find(text, ch, start) ==
  LET hits == {k \in start..Len(text) : text[k] = ch}
  IN IF hits = {} THEN 0 ELSE CHOOSE k \in hits : \A h \in hits : k <= h

\* c.isalnum() or c == "_" over SqlChars
isalnum(c) == c = "a"

\* the locals of split_sql before the loop
split_sql_locals ==
  [stmts |-> <<>>, buf |-> <<>>, in_single |-> FALSE, in_double |-> FALSE,
   in_dollar |-> FALSE, dollar_tag |-> <<>>]

\* apply_schema.split_sql: the while loop from position i with locals s, then
\* the tail
RECURSIVE split_sql_while(_, _, _)
split_sql_while(sql_text, i, s) ==
  IF i > Len(sql_text)
  THEN LET tail == strip(s.buf)
       IN IF tail # <<>> THEN Append(s.stmts, tail) ELSE s.stmts
  ELSE
    LET ch == sql_text[i]
        nxt == IF i + 1 <= Len(sql_text) THEN sql_text[i + 1] ELSE ""
        kept == [s EXCEPT !.buf = Append(@, ch)]
    IN IF s.in_single
       THEN IF ch = "'" /\ nxt = "'"
            THEN split_sql_while(sql_text, i + 2, [s EXCEPT !.buf = @ \o <<ch, nxt>>])
            ELSE IF ch = "'"
            THEN split_sql_while(sql_text, i + 1, [kept EXCEPT !.in_single = FALSE])
            ELSE split_sql_while(sql_text, i + 1, kept)
       ELSE IF s.in_double
       THEN IF ch = "\"" /\ nxt = "\""
            THEN split_sql_while(sql_text, i + 2, [s EXCEPT !.buf = @ \o <<ch, nxt>>])
            ELSE IF ch = "\""
            THEN split_sql_while(sql_text, i + 1, [kept EXCEPT !.in_double = FALSE])
            ELSE split_sql_while(sql_text, i + 1, kept)
       ELSE IF s.in_dollar
       THEN IF startswith(sql_text, s.dollar_tag, i)
            THEN split_sql_while(sql_text, i + Len(s.dollar_tag),
                                 [s EXCEPT !.buf = Append(@, ch) \o Tail(s.dollar_tag),
                                           !.in_dollar = FALSE])
            ELSE split_sql_while(sql_text, i + 1, kept)
       ELSE IF ch = "'"
       THEN split_sql_while(sql_text, i + 1, [kept EXCEPT !.in_single = TRUE])
       ELSE IF ch = "\""
       THEN split_sql_while(sql_text, i + 1, [kept EXCEPT !.in_double = TRUE])
       ELSE IF ch = "$"
       THEN LET end_pos == find(sql_text, "$", i + 1)
                tag == SubSeq(sql_text, i, end_pos)
            IN IF end_pos # 0 /\ \A k \in 2..(Len(tag) - 1) : isalnum(tag[k])
               THEN split_sql_while(sql_text, i + 1,
                                    [kept EXCEPT !.dollar_tag = tag, !.in_dollar = TRUE])
               ELSE split_sql_while(sql_text, i + 1, kept)
       ELSE IF ch = ";"
       THEN LET stmt == strip(s.buf)
            IN split_sql_while(sql_text, i + 1,
                 [s EXCEPT !.stmts = IF stmt # <<>> THEN Append(@, stmt) ELSE @,
                           !.buf = <<>>])
       ELSE split_sql_while(sql_text, i + 1, kept)

split_sql(sql_text) == split_sql_while(sql_text, 1, split_sql_locals)

\* the copy of split_sql in the initial migration: its loop and its tail
RECURSIVE init_split_sql_while(_, _, _)
init_split_sql_while(sql_text, i, s) ==
  IF i > Len(sql_text)
  THEN LET tail == strip(s.buf)
       IN IF tail # <<>> THEN Append(s.stmts, tail) ELSE s.stmts
  ELSE
    LET ch == sql_text[i]
        nxt == IF i + 1 <= Len(sql_text) THEN sql_text[i + 1] ELSE ""
        kept == [s EXCEPT !.buf = Append(@, ch)]
    IN IF s.in_single
       THEN IF ch = "'" /\ nxt = "'"
            THEN init_split_sql_while(sql_text, i + 2, [s EXCEPT !.buf = @ \o <<ch, nxt>>])
            ELSE IF ch = "'"
            THEN init_split_sql_while(sql_text, i + 1, [kept EXCEPT !.in_single = FALSE])
            ELSE init_split_sql_while(sql_text, i + 1, kept)
       ELSE IF s.in_double
       THEN IF ch = "\"" /\ nxt = "\""
            THEN init_split_sql_while(sql_text, i + 2, [s EXCEPT !.buf = @ \o <<ch, nxt>>])
            ELSE IF ch = "\""
            THEN init_split_sql_while(sql_text, i + 1, [kept EXCEPT !.in_double = FALSE])
            ELSE init_split_sql_while(sql_text, i + 1, kept)
       ELSE IF s.in_dollar
       THEN IF startswith(sql_text, s.dollar_tag, i)
            THEN init_split_sql_while(sql_text, i + Len(s.dollar_tag),
                                      [s EXCEPT !.buf = Append(@, ch) \o Tail(s.dollar_tag),
                                                !.in_dollar = FALSE])
            ELSE init_split_sql_while(sql_text, i + 1, kept)
       ELSE IF ch = "'"
       THEN init_split_sql_while(sql_text, i + 1, [kept EXCEPT !.in_single = TRUE])
       ELSE IF ch = "\""
       THEN init_split_sql_while(sql_text, i + 1, [kept EXCEPT !.in_double = TRUE])
       ELSE IF ch = "$"
       THEN LET end_pos == find(sql_text, "$", i + 1)
                tag == SubSeq(sql_text, i, end_pos)
            IN IF end_pos # 0 /\ \A k \in 2..(Len(tag) - 1) : isalnum(tag[k])
               THEN init_split_sql_while(sql_text, i + 1,
                                         [kept EXCEPT !.dollar_tag = tag, !.in_dollar = TRUE])
               ELSE init_split_sql_while(sql_text, i + 1, kept)
       ELSE IF ch = ";"
       THEN LET stmt == strip(s.buf)
            IN init_split_sql_while(sql_text, i + 1,
                 [s EXCEPT !.stmts = IF stmt # <<>> THEN Append(@, stmt) ELSE @,
                           !.buf = <<>>])
       ELSE init_split_sql_while(sql_text, i + 1, kept)

init_split_sql(sql_text) == init_split_sql_while(sql_text, 1, split_sql_locals)

\* schema.sql holds any text of SqlTexts; nothing is split yet
InitSplit ==
  /\ asset_status = SeedStatuses
  /\ assets = [i \in {} |-> 0]
  /\ asset_seq = 0
  /\ assignments = [i \in {} |-> 0]
  /\ assignment_seq = 0
  /\ now = StartTime
  /\ resp = NoResponse
  /\ txn = [c \in Clients |-> Idle]
  /\ env = DefaultEnviron
  /\ itam = NoTables
  /\ apply = [NotStarted EXCEPT !.pc = "apply"]
  /\ \E text \in SqlTexts : split = [NotSplit EXCEPT !.sql_text = text]

\* apply_schema.main: statements = split_sql(sql_text)
main_split_sql ==
  /\ split.statements = None
  /\ split' = [split EXCEPT !.statements = Some(split_sql(split.sql_text))]
  /\ UNCHANGED <<asset_status, assets, asset_seq, assignments, assignment_seq, now, resp, txn, env, itam, apply>>

\* the migration's upgrade(): statements = split_sql(sql_text)
upgrade_split_sql ==
  /\ split.migration = None
  /\ split' = [split EXCEPT !.migration = Some(init_split_sql(split.sql_text))]
  /\ UNCHANGED <<asset_status, assets, asset_seq, assignments, assignment_seq, now, resp, txn, env, itam, apply>>

SpecSplit ==
  InitSplit /\ [][main_split_sql \/ upgrade_split_sql]_vars

\* ================================================================ claims
\* the requests of each endpoint an admitted caller can send
AdmittedBearers(op) == {b \in Bearers : Admitted(op, b)}
StatusName(a) == asset_status[assets[a].status_id]

\* ----------------------------------------------------------------------- C1
\* the transition table as the specification words it
C1_Table ==
  [in_stock |-> {"in_use", "repair", "retired"},
   in_use   |-> {"in_stock", "repair", "retired"},
   repair   |-> {"in_use", "retired"},
   retired  |-> {}]

\* C1: for every pair (from, to) of the four status names, a PUT /assets/{id}
\* asking for `to` on an asset whose status is `from` is rejected with
\* 400 'Cannot transition from <from> to <to>', writing nothing, iff to # from
\* and `to` is not in the allowed set of `from`; otherwise it is accepted and
\* the status is written (unless the storage fails, which is answered as such).
C1_TransitionDecision ==
  \A a \in DOMAIN assets, to_id \in DOMAIN asset_status, d \in Descriptions,
     b \in AdmittedBearers("update_asset"), f \in BOOLEAN :
    LET from == StatusName(a)
        to == asset_status[to_id]
        o == update_asset(a, [status_id |-> Some(to_id), description |-> d], b, f)
        legal == to = from \/ to \in C1_Table[from]
    IN /\ legal =>
            IF f THEN o.resp = db_error("update_asset") /\ o.assets = assets
            ELSE /\ o.resp = Response("update_asset", 200, <<"asset_id", a>>)
                 /\ o.assets[a].status_id = to_id
       /\ ~legal =>
            /\ o.resp = Response("update_asset", 400, CannotTransition(from, to))
            /\ o.assets = assets

\* C1 witness: a PUT asking for in_stock on an asset in repair was rejected
C1_Witness ==
  resp = Response("update_asset", 400, CannotTransition("repair", "in_stock"))

\* ----------------------------------------------------------------------- C2
\* every PUT naming a status other than retired on a retired asset is rejected
\* with 400 and writes nothing
C2_RetiredRejects ==
  \A a \in DOMAIN assets :
    StatusName(a) = "retired" =>
      \A p \in AssetUpdatePayloads, b \in AdmittedBearers("update_asset"),
         f \in BOOLEAN :
        (p.status_id # None /\ get_status_name(Val(p.status_id)) # Some("retired")) =>
          LET o == update_asset(a, p, b, f)
          IN o.resp.code = 400 /\ o.assets = assets

\* no step takes a stored asset out of retired
C2_RetiredStays ==
  \A a \in DOMAIN assets :
    (StatusName(a) = "retired" /\ a \in DOMAIN assets') =>
      asset_status'[assets'[a].status_id] = "retired"

\* C2: retired is terminal: once an asset's stored status is retired, every PUT
\* that names another status is rejected with 400, and whatever requests are
\* handled one after another the asset, while stored, stays retired.
C2_RetiredIsTerminal == []C2_RetiredRejects /\ [][C2_RetiredStays]_vars

\* C2 witness: after in_stock -> retired, the PUT asking for in_use was rejected
C2_Witness ==
  /\ resp = Response("update_asset", 400, CannotTransition("retired", "in_use"))
  /\ \E a \in DOMAIN assets : StatusName(a) = "retired"

\* ----------------------------------------------------------------------- C3
C3_HasTarget(p) == p.person_id # None \/ p.location_id # None
C3_ValidRange(p) ==
  (p.assigned_from # None /\ p.assigned_to # None) =>
    Val(p.assigned_to) > Val(p.assigned_from)

\* C3: POST /assignments for an asset whose status is retired is rejected and
\* inserts no row whatever the payload; for an admitted caller and a payload
\* with a target and a valid range the answer is 400 'Asset is retired' iff the
\* asset is retired, and otherwise the row is inserted (unless the storage fails).
C3_RetiredBlocksAssignment ==
  \A p \in AssignmentCreatePayloads, b \in Bearers, f \in BOOLEAN :
    p.asset_id \in DOMAIN assets =>
      LET o == create_assignment(p, b, f)
          retired == StatusName(p.asset_id) = "retired"
      IN /\ retired =>
              /\ o.resp.code \notin {200, 201}
              /\ o.assignments = assignments
         /\ (Admitted("create_assignment", b) /\ C3_HasTarget(p) /\ C3_ValidRange(p)) =>
              /\ (o.resp = Response("create_assignment", 400, <<"Asset is retired">>))
                   <=> retired
              /\ (~retired /\ ~f) =>
                   /\ o.resp.code = 201
                   /\ Cardinality(DOMAIN o.assignments) = Cardinality(DOMAIN assignments) + 1

\* C3 witness: an assignment for a retired asset was refused
C3_Witness ==
  /\ resp = Response("create_assignment", 400, <<"Asset is retired">>)
  /\ \E a \in DOMAIN assets : StatusName(a) = "retired"

\* ----------------------------------------------------------------------- C4
\* P(op, bearer, outcome) of every request the endpoints can be sent
ForAllRequests(P(_, _, _)) ==
  \A b \in Bearers :
    /\ P("list_assets", b, list_assets(b))
    /\ P("lookups", b, lookups(b))
    /\ \A a \in AssetIdInputs :
         P("list_asset_assignments", b, list_asset_assignments(a, b))
    /\ \A f \in BOOLEAN :
         /\ \A p \in AssetCreatePayloads : P("create_asset", b, create_asset(p, b, f))
         /\ \A a \in AssetIdInputs :
              /\ P("delete_asset", b, delete_asset(a, b, f))
              /\ \A p \in AssetUpdatePayloads :
                   P("update_asset", b, update_asset(a, p, b, f))
         /\ \A p \in AssignmentCreatePayloads :
              P("create_assignment", b, create_assignment(p, b, f))
         /\ \A i \in AssignmentIdInputs :
              /\ P("delete_assignment", b, delete_assignment(i, b, f))
              /\ \A p \in AssignmentUpdatePayloads :
                   P("update_assignment", b, update_assignment(i, p, b, f))

\* the allowed sets as the specification's interface table gives them
C4_Allowed ==
  [list_assets            |-> {"admin", "operator", "viewer"},
   list_asset_assignments |-> {"admin", "operator", "viewer"},
   lookups                |-> {"admin", "operator", "viewer"},
   create_asset           |-> {"admin", "operator"},
   update_asset           |-> {"admin", "operator"},
   delete_asset           |-> {"admin"},
   create_assignment      |-> {"admin", "operator"},
   update_assignment      |-> {"admin", "operator"},
   delete_assignment      |-> {"admin"}]

\* the user a bearer stands for at the current time, None without a valid token
C4_User(b) == IF b = None THEN None ELSE _verify_token(Val(b), now)

C4_Gate(op, b, o) ==
  LET user == C4_User(b)
  IN IF user = None THEN o.resp.code = 401
     ELSE IF Val(user).role \notin C4_Allowed[op] THEN o.resp.code = 403
     ELSE o.resp.op = op /\ o.resp.code \notin {401, 403}

\* C4: on every endpoint a request with no or an invalid token is answered 401,
\* a request with a valid token whose role is outside the endpoint's allowed set
\* is answered 403, and every other request passes the gate (neither 401 nor 403).
C4_AccessGate == ForAllRequests(C4_Gate)

\* C4 witness: the last request was answered 403 by the role check, which is the
\* answer a viewer's POST /assets gets while the same viewer's GET /assets gets 200
C4_Witness ==
  /\ resp = Response("require_role", 403, <<"Forbidden">>)
  /\ \E b \in Bearers, p \in AssetCreatePayloads :
       /\ C4_User(b) # None
       /\ Val(C4_User(b)).role = "viewer"
       /\ create_asset(p, b, FALSE).resp = resp
       /\ list_assets(b).resp.code = 200

\* ----------------------------------------------------------------------- C5
C5_RejectionCodes == {400, 401, 403, 404, 422}

C5_Frame(op, b, o) ==
  o.resp.code \in C5_RejectionCodes =>
    o.assets = assets /\ o.assignments = assignments

\* C5: every request answered with a rejection (401, 403, 400, 404, a payload
\* validation error, a storage failure that is rolled back) leaves the stored
\* assets and assignments exactly as they were.
C5_RejectionWritesNothing == ForAllRequests(C5_Frame)

\* C5 witness: a PUT /assets/{id} of an existing asset failed in the storage
C5_Witness == resp = db_error("update_asset") /\ DOMAIN assets # {}

\* ----------------------------------------------------------------------- C6
\* C6: every stored assignment whose assigned_to is set has assigned_to strictly
\* greater than its assigned_from.
C6_RangeInvariant ==
  \A i \in DOMAIN assignments :
    assignments[i].assigned_to # None =>
      Val(assignments[i].assigned_to) > Val(assignments[i].assigned_from)

\* ----------------------------------------------------------------------- C7
\* the number of open assignments of an asset in an assignments table
C7_OpenCount(table, a) ==
  Cardinality({i \in DOMAIN table :
                 table[i].asset_id = a /\ table[i].assigned_to = None})

\* C7 as claimed: each asset has at most one assignment with assigned_to = NULL
C7_AtMostOneOpen == \A a \in DOMAIN assets : C7_OpenCount(assignments, a) <= 1

C7_OthersOpenNothing(op, b, o) ==
  op # "create_assignment" =>
    \/ o.assignments = assignments
    \/ \A a \in AssetIdInputs :
         C7_OpenCount(o.assignments, a) <= C7_OpenCount(assignments, a)

\* C7 amended: the API does not keep the number of open assignments of an asset
\* at one or below. An accepted POST /assignments without assigned_to adds one
\* open assignment to its asset whether or not the asset already has one, every
\* other POST /assignments adds none, and no other request raises the number of
\* open assignments of any asset.
C7_OpenRaisedOnlyByOpenCreate ==
  /\ ForAllRequests(C7_OthersOpenNothing)
  /\ \A p \in AssignmentCreatePayloads, b \in Bearers, f \in BOOLEAN :
       LET o == create_assignment(p, b, f)
       IN \A a \in AssetIdInputs :
            C7_OpenCount(o.assignments, a) =
              C7_OpenCount(assignments, a) +
                (IF o.resp.code = 201 /\ p.asset_id = a /\ p.assigned_to = None
                 THEN 1 ELSE 0)

\* C7 witness: a POST /assignments was accepted and its asset has two open
\* assignments
C7_Witness ==
  /\ resp.op = "create_assignment" /\ resp.code = 201
  /\ \E a \in DOMAIN assets : C7_OpenCount(assignments, a) = 2

\* ----------------------------------------------------------------------- C8
\* C8: the unfiltered listing has exactly one row for each stored asset: the
\* row of its open assignment, or one with null assignment fields when none is
\* open.
C8_OneRowPerAsset ==
  \A a \in DOMAIN assets :
    /\ Cardinality({pair \in list_assets_join : pair[1] = a}) = 1
    /\ \A pair \in list_assets_join :
         pair[1] = a =>
           IF open_assignments(a) = {} THEN pair[2] = None
           ELSE pair[2] # None /\ Val(pair[2]) \in open_assignments(a)

\* ----------------------------------------------------------------------- C9
\* C9: a POST /assignments answered 201 inserts exactly one row, under a new
\* id, and changes no other assignment row and no asset; a PUT /assets/{id}
\* answered 200 changes no assignment row.
C9_SuccessFrame ==
  /\ \A p \in AssignmentCreatePayloads, b \in Bearers, f \in BOOLEAN :
       LET o == create_assignment(p, b, f)
       IN o.resp.code = 201 =>
            /\ o.assignment_seq \notin DOMAIN assignments
            /\ DOMAIN o.assignments = DOMAIN assignments \cup {o.assignment_seq}
            /\ \A i \in DOMAIN assignments : o.assignments[i] = assignments[i]
            /\ o.assets = assets
  /\ \A a \in AssetIdInputs, p \in AssetUpdatePayloads, b \in Bearers,
        f \in BOOLEAN :
       LET o == update_asset(a, p, b, f)
       IN o.resp.code = 200 => o.assignments = assignments

\* C9 witness: a PUT was accepted, and the asset is retired with its assignment
\* still open
C9_Witness ==
  /\ resp.op = "update_asset" /\ resp.code = 200
  /\ \E a \in DOMAIN assets :
       StatusName(a) = "retired" /\ open_assignments(a) # {}

\* ---------------------------------------------------------------------- C10
\* C10: a status change that passed the transition check commits without being
\* checked again: whatever status is committed by then, its UPDATE is answered
\* 200 and stores the requested status; every committed change was allowed from
\* the status its request read, not necessarily from the one it overwrote.
C10_CommitNotRevalidated ==
  \A c \in Clients :
    /\ (txn[c].stage = "validated" /\ txn[c].asset_id \in DOMAIN assets) =>
         LET o == update_asset_commit(txn[c], FALSE)
         IN /\ o.resp = Response("update_asset", 200, <<"asset_id", txn[c].asset_id>>)
            /\ o.assets[txn[c].asset_id].status_id = Val(txn[c].data.status_id)
    /\ (txn[c].stage = "done" /\ txn[c].code = 200) =>
         ~status_change_rejected(txn[c].seen, txn[c].wrote)

\* C10 witness: two requests read the same status and both committed; the
\* later one overwrote retired with in_use, a pair the table does not allow
C10_Witness ==
  \E c, d \in Clients :
    /\ c # d
    /\ txn[c].stage = "done" /\ txn[c].code = 200
    /\ txn[d].stage = "done" /\ txn[d].code = 200
    /\ txn[c].asset_id = txn[d].asset_id
    /\ txn[c].seen = txn[d].seen
    /\ txn[c].wrote = "retired"
    /\ txn[d].overwrote = "retired" /\ txn[d].wrote = "in_use"
    /\ "in_use" \notin ALLOWED_STATUS_TRANSITIONS["retired"]
    /\ StatusName(txn[d].asset_id) = "in_use"

\* ---------------------------------------------------------------------- C11
\* the sort keys the interface names
C11_Keys == {"asset_tag", "status", "type", "owner", "location", "updated"}
C11_Tag(pair) == assets[pair[1]].asset_tag
C11_WithSort(q, sort) == [q EXCEPT !.sort = sort]

\* C11 as claimed: for every sort value whose key is not one of the six keys,
\* values with a leading '-' included, the listing comes in the order of
\* sort=asset_tag, ascending asset_tag.
C11_UnknownKeySortsAscendingTag ==
  \A q \in ListQueries :
    sort_lstrip(q.sort) \notin C11_Keys =>
      /\ list_assets_fetchall(q) =
           list_assets_fetchall(C11_WithSort(q, SortValue(0, "asset_tag")))
      /\ \A s \in list_assets_fetchall(q) :
           \A i, j \in DOMAIN s : i < j => C11_Tag(s[i]) <= C11_Tag(s[j])

\* C11 amended: an unknown key falls back to the asset_tag column and the
\* leading '-' still sets the direction: a value without a leading '-' whose
\* key is unknown (the empty string included) lists in the order of
\* sort=asset_tag, ascending asset_tag, and a value with a leading '-' whose key
\* is unknown lists in the order of sort=-asset_tag, descending asset_tag.
C11_UnknownKeySortsByTag ==
  \A q \in ListQueries :
    sort_lstrip(q.sort) \notin C11_Keys =>
      IF q.sort.dashes = 0
      THEN /\ list_assets_fetchall(q) =
                list_assets_fetchall(C11_WithSort(q, SortValue(0, "asset_tag")))
           /\ \A s \in list_assets_fetchall(q) :
                \A i, j \in DOMAIN s : i < j => C11_Tag(s[i]) <= C11_Tag(s[j])
      ELSE /\ list_assets_fetchall(q) =
                list_assets_fetchall(C11_WithSort(q, SortValue(1, "asset_tag")))
           /\ \A s \in list_assets_fetchall(q) :
                \A i, j \in DOMAIN s : i < j => C11_Tag(s[i]) >= C11_Tag(s[j])

\* C11 witness: the answer is a listing that sort=-bogus gives on these tables,
\* and it has two assets in descending asset_tag order
C11_Witness ==
  /\ resp.op = "list_assets" /\ resp.code = 200
  /\ \E q \in ListQueries :
       /\ q.sort = SortValue(1, "bogus")
       /\ resp.detail[2] \in list_assets_fetchall(q)
  /\ \E i, j \in DOMAIN resp.detail[2] :
       i < j /\ C11_Tag(resp.detail[2][i]) > C11_Tag(resp.detail[2][j])

\* ---------------------------------------------------------------------- C12
\* the value a row is ordered by under a sort key, None for a row without one
C12_Value(pair, key) ==
  CASE key = "asset_tag" -> Some(assets[pair[1]].asset_tag)
    [] key = "status"    -> Some(name_rank(StatusName(pair[1])))
    [] key = "type"      -> Some(assets[pair[1]].type_id)
    [] key = "owner"     -> assets[pair[1]].owner_org_unit_id
    [] key = "location"  -> IF pair[2] = None THEN None
                            ELSE assignments[Val(pair[2])].location_id
    [] key = "updated"   -> Some(assets[pair[1]].updated_at)

\* C12: for a sort value with one of the six keys every listing holds each
\* selected row once, and of two rows the earlier has the smaller value of the
\* key's column when the value has no leading '-', the greater when it has one,
\* and the smaller or equal asset_tag when the two values are equal.
C12_OrderedByKeyThenTag ==
  \A q \in ListQueries :
    sort_lstrip(q.sort) \in C11_Keys =>
      \A s \in list_assets_fetchall(q) :
        /\ {s[i] : i \in DOMAIN s} = list_assets_selected(q)
        /\ Len(s) = Cardinality(list_assets_selected(q))
        /\ \A i, j \in DOMAIN s :
             i < j =>
               LET x == C12_Value(s[i], sort_lstrip(q.sort))
                   y == C12_Value(s[j], sort_lstrip(q.sort))
               IN /\ (x # None /\ y # None /\ q.sort.dashes = 0) => Val(x) <= Val(y)
                  /\ (x # None /\ y # None /\ q.sort.dashes > 0) => Val(x) >= Val(y)
                  /\ x = y => C11_Tag(s[i]) <= C11_Tag(s[j])

\* C12 witness: the answer is a listing that sort=-updated gives on tables with
\* two assets of equal updated_at, listed in ascending asset_tag order
C12_Witness ==
  /\ resp.op = "list_assets" /\ resp.code = 200
  /\ \E q \in ListQueries :
       /\ q.sort = SortValue(1, "updated")
       /\ resp.detail[2] \in list_assets_fetchall(q)
  /\ \E i, j \in DOMAIN resp.detail[2] :
       /\ i < j
       /\ assets[resp.detail[2][i][1]].updated_at = assets[resp.detail[2][j][1]].updated_at
       /\ C11_Tag(resp.detail[2][i]) < C11_Tag(resp.detail[2][j])
       /\ resp.detail[2][i][1] > resp.detail[2][j][1]

\* ---------------------------------------------------------------------- C13
C13_HasOpen(a) ==
  \E i \in DOMAIN assignments :
    assignments[i].asset_id = a /\ assignments[i].assigned_to = None
C13_PassesOtherFilters(a, q) == q.status = {} \/ StatusName(a) \in q.status
C13_Listed(s) == {s[i][1] : i \in DOMAIN s}

\* C13: with assigned=true a listing holds exactly the assets that pass the
\* other filters and have an assignment with assigned_to NULL, with
\* assigned=false exactly those that pass them and have none, and with assigned
\* unset exactly those that pass them.
C13_AssignedTriState ==
  \A q \in ListQueries :
    \A s \in list_assets_fetchall(q) :
      C13_Listed(s) =
        {a \in DOMAIN assets :
           /\ C13_PassesOtherFilters(a, q)
           /\ (q.assigned = Some(TRUE)) => C13_HasOpen(a)
           /\ (q.assigned = Some(FALSE)) => ~C13_HasOpen(a)}

\* C13 witness: the answer is a listing that assigned=false gives on tables
\* with an asset that has an open assignment, an asset that has only a closed
\* one, and the listing holds the second alone
C13_Witness ==
  /\ resp.op = "list_assets" /\ resp.code = 200
  /\ \E q \in ListQueries :
       /\ q.assigned = Some(FALSE) /\ q.status = {}
       /\ resp.detail[2] \in list_assets_fetchall(q)
  /\ \E a, b \in DOMAIN assets :
       /\ C13_HasOpen(a)
       /\ ~C13_HasOpen(b)
       /\ \E i \in DOMAIN assignments : assignments[i].asset_id = b
       /\ C13_Listed(resp.detail[2]) = {b}

\* ---------------------------------------------------------------------- C14
\* the POST /assignments payloads with every combination of person_id and
\* location_id
C14_Payloads ==
  {[asset_id |-> a, person_id |-> tg[1], location_id |-> tg[2],
    assigned_from |-> f, assigned_to |-> t, purpose |-> None] :
   a \in AssetIdInputs,
   tg \in {<<None, None>>, <<Some(1), None>>, <<None, Some(1)>>, <<Some(1), Some(1)>>},
   f \in OptionalTimes, t \in OptionalTimes}

C14_MissingTarget ==
  validation_error("create_assignment", "Either person_id or location_id must be provided")

\* C14: a POST /assignments without person_id and without location_id is
\* rejected and inserts no row, whatever asset it names and whatever else it
\* carries (an admitted caller gets the missing-target rejection); one with at
\* least one of the two is never answered with the missing-target rejection.
C14_TargetRequired ==
  \A p \in C14_Payloads, b \in Bearers, f \in BOOLEAN :
    LET o == create_assignment(p, b, f)
    IN IF p.person_id = None /\ p.location_id = None
       THEN /\ o.resp.code \notin {200, 201}
            /\ o.assignments = assignments
            /\ Admitted("create_assignment", b) => o.resp = C14_MissingTarget
       ELSE o.resp # C14_MissingTarget

\* C14 witness: a POST /assignments for a stored asset that is not retired was
\* rejected for its missing target
C14_Witness ==
  /\ resp = C14_MissingTarget
  /\ \E a \in DOMAIN assets : StatusName(a) # "retired"

\* ---------------------------------------------------------------------- C15
C15_InvalidRange ==
  validation_error("create_assignment", "assigned_to must be greater than assigned_from")

\* C15: a POST /assignments with both assigned_from and assigned_to, and
\* assigned_to <= assigned_from, is rejected and inserts no row (an admitted
\* caller whose payload has a target gets the invalid-range rejection); with
\* assigned_to > assigned_from, or one of the two omitted, the request is never
\* answered with the invalid-range rejection.
C15_RangeChecked ==
  \A p \in C14_Payloads, b \in Bearers, f \in BOOLEAN :
    LET o == create_assignment(p, b, f)
    IN IF /\ p.assigned_from # None
          /\ p.assigned_to # None
          /\ Val(p.assigned_to) <= Val(p.assigned_from)
       THEN /\ o.resp.code \notin {200, 201}
            /\ o.assignments = assignments
            /\ (Admitted("create_assignment", b) /\ C3_HasTarget(p)) =>
                 o.resp = C15_InvalidRange
       ELSE o.resp # C15_InvalidRange

\* C15 witness: a POST /assignments for a stored asset that is not retired was
\* rejected for its range
C15_Witness ==
  /\ resp = C15_InvalidRange
  /\ \E a \in DOMAIN assets : StatusName(a) # "retired"

\* ---------------------------------------------------------------------- C16
C16_UnknownStatusIds == StatusIdInputs \ DOMAIN asset_status
C16_InvalidStatus == Response("update_asset", 400, <<"Invalid status_id">>)
C16_TransitionDetails ==
  {CannotTransition(x, y) : x, y \in {SeedStatuses[i] : i \in DOMAIN SeedStatuses}}

\* C16: a PUT /assets/{id} by an admitted caller on a stored asset, naming a
\* status_id no status row has, is answered 400 'Invalid status_id' whatever the
\* asset's status and the other fields, which is not the answer of a refused
\* transition, and leaves the assets as they are.
C16_UnknownStatusRejected ==
  \A a \in DOMAIN assets, u \in C16_UnknownStatusIds, d \in Descriptions,
     b \in AdmittedBearers("update_asset"), f \in BOOLEAN :
    LET o == update_asset(a, [status_id |-> Some(u), description |-> d], b, f)
    IN /\ o.resp = C16_InvalidStatus
       /\ o.resp.detail \notin C16_TransitionDetails
       /\ o.assets = assets

\* C16 witness: a PUT naming an unknown status_id was rejected while the asset
\* is retired
C16_Witness ==
  /\ resp = C16_InvalidStatus
  /\ \E a \in DOMAIN assets :
       /\ StatusName(a) = "retired"
       /\ \E u \in C16_UnknownStatusIds :
            update_asset(a, [status_id |-> Some(u), description |-> None],
                         AdminBearer, FALSE).resp = resp

\* ---------------------------------------------------------------------- C17
C17_LifecycleDetails == {<<"Invalid status_id">>} \cup C16_TransitionDetails

\* C17: a PUT /assets/{id} by an admitted caller on a stored asset with no
\* status_id in the payload is never answered with a rejection of the lifecycle
\* check, whatever the asset's status; it leaves the status as it is, and with
\* a description supplied it is answered 200 and stores the description (unless
\* the storage fails).
C17_NoStatusNoLifecycleCheck ==
  \A a \in DOMAIN assets, d \in Descriptions,
     b \in AdmittedBearers("update_asset"), f \in BOOLEAN :
    LET o == update_asset(a, [status_id |-> None, description |-> d], b, f)
    IN /\ o.resp.detail \notin C17_LifecycleDetails
       /\ o.assets[a].status_id = assets[a].status_id
       /\ (d # None /\ ~f) =>
            /\ o.resp = Response("update_asset", 200, <<"asset_id", a>>)
            /\ o.assets[a].description = d

\* C17 witness: a PUT was accepted, the asset is retired and carries a
\* description, and a PUT with only a description is accepted in this state
C17_Witness ==
  /\ resp.op = "update_asset" /\ resp.code = 200
  /\ \E a \in DOMAIN assets :
       /\ StatusName(a) = "retired"
       /\ assets[a].description # None
       /\ update_asset(a, [status_id |-> None, description |-> Some("d")],
                       AdminBearer, FALSE).resp = resp

\* ---------------------------------------------------------------------- C18
\* C18: every response that is a rejection other than 401, 403 and 404 (an
\* unknown status, a refused transition, a retired asset, a missing target, an
\* invalid range, an empty update) has status code 400.
C18_RejectionsAre400 ==
  resp.code \notin {0, 200, 201, 204, 401, 403, 404} => resp.code = 400

\* C19: the token create_token builds for a configured user resolves to exactly
\* that user and role at every time up to its expiry, whatever bytes the HMAC
\* digest has, and a token with altered payload or signature resolves to no user
C19_TokenRoundTrip ==
  resp.op = "auth_token" =>
    LET token == Val(resp.detail)
        username == token.payload[1]
    IN /\ now <= token.payload[3] =>
            _verify_token(token, now)
              = Some(User(username, _load_users[username].role))
       /\ \A a \in AlteredTokens(token) : _verify_token(a, now) = None

C21_Payloads == [assigned_to : OptionalTimes, purpose : {None, Some("p")}]

\* C21: a PUT /assignments/{id} by an admitted caller on a stored assignment is
\* rejected by validation exactly when every field of the payload is null, and
\* the tables stay as they are; with a field set it is answered 200 (unless the
\* storage fails) and each set field is stored, the others kept, whatever the
\* asset's status, the row's assigned_from and its assigned_to
C21_UpdateOnlyRejectsEmpty ==
  \A i \in DOMAIN assignments, p \in C21_Payloads,
     b \in AdmittedBearers("update_assignment") :
    LET o == update_assignment(i, p, b, FALSE)
        old == assignments[i]
    IN IF p.assigned_to = None /\ p.purpose = None
       THEN /\ o.resp.code = 422
            /\ o.assignments = assignments
       ELSE /\ o.resp = Response("update_assignment", 200, <<"assignment_id", i>>)
            /\ DOMAIN o.assignments = DOMAIN assignments
            /\ \A j \in DOMAIN assignments \ {i} : o.assignments[j] = assignments[j]
            /\ o.assignments[i].assigned_to
                 = (IF p.assigned_to = None THEN old.assigned_to ELSE p.assigned_to)
            /\ o.assignments[i].purpose
                 = (IF p.purpose = None THEN old.purpose ELSE p.purpose)
            /\ o.assignments[i].asset_id = old.asset_id
            /\ o.assignments[i].assigned_from = old.assigned_from
            /\ o.assignments[i].person_id = old.person_id
            /\ o.assignments[i].location_id = old.location_id

\* C21 witness: a PUT /assignments/{id} was accepted on an assignment of a
\* retired asset and left it closed at a time not after its start
C21_Witness ==
  /\ resp.op = "update_assignment"
  /\ resp.code = 200
  /\ \E i \in DOMAIN assignments :
       /\ resp.detail = <<"assignment_id", i>>
       /\ assignments[i].asset_id \in DOMAIN assets
       /\ StatusName(assignments[i].asset_id) = "retired"
       /\ assignments[i].assigned_to # None
       /\ Val(assignments[i].assigned_to) <= Val(assignments[i].assigned_from)

\* ---------------------------------------------------------------------- C22
C22_MissingAssets == AssetIdInputs \ DOMAIN assets
C22_MissingAssignments == AssignmentIdInputs \ DOMAIN assignments

\* the outcome is a 404 and the tables and sequences are as before
C22_NotFound(o) ==
  /\ o.resp.code = 404
  /\ o.assets = assets
  /\ o.asset_seq = asset_seq
  /\ o.assignments = assignments
  /\ o.assignment_seq = assignment_seq

\* C22 as stated: every PUT or DELETE by an admitted caller on an asset id or
\* assignment id that is not stored, and every POST /assignments naming an asset
\* id that is not stored, is answered 404 and changes nothing, whatever the body
C22_NotStoredIs404 ==
  /\ \A a \in C22_MissingAssets :
       /\ \A p \in AssetUpdatePayloads, b \in AdmittedBearers("update_asset") :
            C22_NotFound(update_asset(a, p, b, FALSE))
       /\ \A b \in AdmittedBearers("delete_asset") :
            C22_NotFound(delete_asset(a, b, FALSE))
       /\ \A p \in AssignmentCreatePayloads, b \in AdmittedBearers("create_assignment") :
            p.asset_id = a => C22_NotFound(create_assignment(p, b, FALSE))
  /\ \A i \in C22_MissingAssignments :
       /\ \A p \in AssignmentUpdatePayloads, b \in AdmittedBearers("update_assignment") :
            C22_NotFound(update_assignment(i, p, b, FALSE))
       /\ \A b \in AdmittedBearers("delete_assignment") :
            C22_NotFound(delete_assignment(i, b, FALSE))

\* C22 amended: the same for every request whose body passes the validation of
\* its schema (a body the schema rejects is answered by the validation before
\* the handler looks anything up); for PUT /assets/{id} the 404 is 'Asset not
\* found' whatever status_id the body names, an unknown one included
C22_NotStoredIs404WhenBodyValid ==
  /\ \A a \in C22_MissingAssets :
       /\ \A p \in AssetUpdatePayloads, b \in AdmittedBearers("update_asset") :
            ensure_any_field(p) =>
              /\ C22_NotFound(update_asset(a, p, b, FALSE))
              /\ update_asset(a, p, b, FALSE).resp.detail = <<"Asset not found">>
       /\ \A b \in AdmittedBearers("delete_asset") :
            C22_NotFound(delete_asset(a, b, FALSE))
       /\ \A p \in AssignmentCreatePayloads, b \in AdmittedBearers("create_assignment") :
            (p.asset_id = a /\ ensure_target(p) /\ ensure_range(p)) =>
              C22_NotFound(create_assignment(p, b, FALSE))
  /\ \A i \in C22_MissingAssignments :
       /\ \A p \in AssignmentUpdatePayloads, b \in AdmittedBearers("update_assignment") :
            ensure_any(p) => C22_NotFound(update_assignment(i, p, b, FALSE))
       /\ \A b \in AdmittedBearers("delete_assignment") :
            C22_NotFound(delete_assignment(i, b, FALSE))

\* C22 witness: an asset was created and deleted, and the PUT that named it
\* with a status_id no row has was answered 'Asset not found'
C22_Witness ==
  /\ asset_seq > 0
  /\ asset_seq \in C22_MissingAssets
  /\ resp = Response("update_asset", 404, <<"Asset not found">>)
  /\ \E u \in C16_UnknownStatusIds :
       update_asset(asset_seq, [status_id |-> Some(u), description |-> None],
                    AdminBearer, FALSE).resp = resp

\* ---------------------------------------------------------------------- C23
\* the token is accepted through the second it expires and answered 401
\* 'Invalid or expired token' afterwards
C23_ExpiryRule(token) ==
  LET got == get_current_user(Some(token), now)
  IN IF now <= token.payload[3]
     THEN got.ok /\ Val(got.user) = User(token.payload[1], token.payload[2])
     ELSE got.resp = Deny("get_current_user", 401, "Invalid or expired token").resp

\* C23: a token issued at time t is accepted on every request made at a time up
\* to t + 43200 seconds, that second included, and rejected with 401 'Invalid or
\* expired token' on every later one, whether or not its user is still
\* configured
C23_TokenValidTwelveHours ==
  /\ resp.op = "auth_token" => C23_ExpiryRule(Val(resp.detail))
  /\ \A t \in AuthTimes, dot \in BOOLEAN :
       t <= now => C23_ExpiryRule(create_token("former", "operator", t, dot))

\* ---------------------------------------------------------------------- C24
\* C24: a listing with owner_org_unit_id supplied, 0 included, holds exactly the
\* assets whose owner_org_unit_id is that value, and a listing without it holds
\* every asset
C24_OwnerFilterExact ==
  \A q \in OwnerQueries :
    \A s \in list_assets_fetchall(q) :
      C13_Listed(s) =
        {a \in DOMAIN assets :
           q.owner_org_unit_id # None =>
             assets[a].owner_org_unit_id = q.owner_org_unit_id}

\* ---------------------------------------------------------------------- C25
\* every assignment that is closed and still stored after the request is still
\* closed
C25_StaysClosed(op, b, o) ==
  \/ o.assignments = assignments
  \/ \A i \in DOMAIN assignments \cap DOMAIN o.assignments :
       assignments[i].assigned_to # None => o.assignments[i].assigned_to # None

\* C25: no request of any endpoint leaves a stored assignment open that was
\* closed before it, a PUT /assignments/{id} whose payload has assigned_to null
\* and another field set included; assignment ids are not reused
C25_ClosedStaysClosed ==
  /\ ForAllRequests(C25_StaysClosed)
  /\ \A i \in AssignmentIdInputs, p \in C21_Payloads,
        b \in AdmittedBearers("update_assignment"), f \in BOOLEAN :
       C25_StaysClosed("update_assignment", b, update_assignment(i, p, b, f))
  /\ \A i \in DOMAIN assignments : i <= assignment_seq

\* C25 witness: a PUT /assignments/{id} was accepted on an assignment that is
\* closed, and a further PUT with assigned_to null and a purpose is accepted
\* and leaves assigned_to as it is
C25_Witness ==
  \E i \in DOMAIN assignments :
    /\ resp = Response("update_assignment", 200, <<"assignment_id", i>>)
    /\ assignments[i].assigned_to # None
    /\ LET o == update_assignment(i, [assigned_to |-> None, purpose |-> Some("p")],
                                  AdminBearer, FALSE)
       IN /\ o.resp.code = 200
          /\ o.assignments[i].assigned_to = assignments[i].assigned_to
          /\ o.assignments[i].purpose = Some("p")

\* ---------------------------------------------------------------------- C26
\* C26 as stated: every assignment insert that commits is committed while the
\* asset's committed status is not retired
C26_NoInsertAfterRetirement ==
  \A c \in Clients :
    (txn[c].stage = "inserted" /\ txn[c].code = 201) =>
      txn[c].committed_status # "retired"

\* C26 amended: an assignment insert that commits read a status that was not
\* retired; once the read has passed, the insert commits whatever the committed
\* status has become since, retired included (unless the storage fails)
C26_InsertChecksOnlyItsRead ==
  \A c \in Clients :
    /\ (txn[c].stage = "inserted" /\ txn[c].code = 201) => txn[c].seen # "retired"
    /\ (txn[c].stage = "checked" /\ txn[c].asset_id \in DOMAIN assets) =>
         LET o == create_assignment_commit(txn[c], FALSE)
         IN /\ o.resp.code = 201
            /\ o.assignments[assignment_seq + 1].asset_id = txn[c].asset_id

\* C26 witness: a POST /assignments read in_stock, a PUT retired the asset and
\* committed, and the insert then committed for the retired asset
C26_Witness ==
  \E c, d \in Clients :
    /\ c # d
    /\ txn[c].stage = "inserted" /\ txn[c].code = 201
    /\ txn[c].seen = "in_stock" /\ txn[c].committed_status = "retired"
    /\ txn[d].stage = "done" /\ txn[d].code = 200 /\ txn[d].wrote = "retired"
    /\ txn[d].asset_id = txn[c].asset_id
    /\ StatusName(txn[c].asset_id) = "retired"
    /\ \E i \in DOMAIN assignments : assignments[i].asset_id = txn[c].asset_id

\* ---------------------------------------------------------------------- C27
\* the name is one of the keys of the transition table
C27_Keyed(name) == name \in {"in_stock", "in_use", "repair", "retired"}

\* C27: a PUT /assets/{id} by an admitted caller that names a stored status
\* other than the asset's own is rejected with 400 and changes nothing whenever
\* the current or the new status name is not a key of the transition table; the
\* PUT naming the asset's own unkeyed status is accepted; and POST /assets
\* stores an asset in an unkeyed status
C27_UnkeyedStatusIsIsolated ==
  /\ \A a \in DOMAIN assets, s \in DOMAIN asset_status, d \in Descriptions,
        b \in AdmittedBearers("update_asset"), f \in BOOLEAN :
       LET o == update_asset(a, [status_id |-> Some(s), description |-> d], b, f)
           current == StatusName(a)
           new == asset_status[s]
       IN /\ (new # current /\ (~C27_Keyed(current) \/ ~C27_Keyed(new))) =>
               /\ o.resp = Response("update_asset", 400, CannotTransition(current, new))
               /\ o.assets = assets
          /\ (new = current /\ ~C27_Keyed(current) /\ ~f) =>
               /\ o.resp.code = 200
               /\ o.assets[a].status_id = s
  /\ \A p \in ExtraCreatePayloads, b \in AdmittedBearers("create_asset") :
       (p.status_id \in DOMAIN asset_status /\ ~C27_Keyed(asset_status[p.status_id])) =>
         LET o == create_asset(p, b, FALSE)
         IN /\ o.resp.code = 201
            /\ o.assets[asset_seq + 1].status_id = p.status_id

\* C27 witness: an asset is stored in the unkeyed status and the PUT that named
\* in_stock was rejected
C27_Witness ==
  /\ resp = Response("update_asset", 400, CannotTransition("lost", "in_stock"))
  /\ \E a \in DOMAIN assets : ~C27_Keyed(StatusName(a))

\* ---------------------------------------------------------------------- C28
\* C28: GET /auth/demo-token answers 404 outside demo mode and otherwise returns
\* a token whose role is viewer, whatever users are configured, and every write
\* and delete request presenting the returned token is answered 403
C28_DemoTokenIsViewer ==
  /\ \A dot \in BOOLEAN :
       LET r == demo_token(env, now, dot)
       IN IF is_demo_mode(env)
          THEN r.code = 200 /\ Val(r.detail).payload[2] = "viewer"
          ELSE r.code = 404
  /\ (resp.op = "auth_demo_token" /\ resp.code = 200) =>
       /\ \A p \in AssetCreatePayloads : create_asset(p, resp.detail, FALSE).resp.code = 403
       /\ \A a \in AssetIdInputs :
            /\ delete_asset(a, resp.detail, FALSE).resp.code = 403
            /\ \A p \in AssetUpdatePayloads :
                 update_asset(a, p, resp.detail, FALSE).resp.code = 403
       /\ \A p \in AssignmentCreatePayloads :
            create_assignment(p, resp.detail, FALSE).resp.code = 403
       /\ \A i \in AssignmentIdInputs :
            /\ delete_assignment(i, resp.detail, FALSE).resp.code = 403
            /\ \A p \in AssignmentUpdatePayloads :
                 update_assignment(i, p, resp.detail, FALSE).resp.code = 403

\* ---------------------------------------------------------------------- C29
\* C29: apply_schema.main never runs its DROP while a table of itam holds a
\* row; it skips exactly when it found tables with data and drops only when it
\* found tables and all of them empty; a finished apply has executed every
\* statement, and the committed schema never holds a part of the statements
C29_NeverDropsData ==
  /\ ~apply.dropped_rows
  /\ apply.pc = "skipped" => apply.has_tables /\ apply.has_data
  /\ apply.pc = "drop" => apply.has_tables /\ ~apply.has_data
  /\ apply.pc = "committed" =>
       apply.executed = Len(SchemaStatements) /\ DOMAIN itam = SchemaTables
  /\ DOMAIN itam \in {{}, SchemaTables}

\* ---------------------------------------------------------------------- C30
\* the position of the quote that closes a string opened with q and scanned
\* from j, a doubled quote standing for itself; the end of the text if none
RECURSIVE C30_QuoteEnd(_, _, _)
C30_QuoteEnd(text, j, q) ==
  IF j > Len(text) THEN Len(text)
  ELSE IF text[j] = q /\ j + 1 <= Len(text) /\ text[j + 1] = q
       THEN C30_QuoteEnd(text, j + 2, q)
  ELSE IF text[j] = q THEN j
  ELSE C30_QuoteEnd(text, j + 1, q)

\* the positions from i on of the semicolons outside '...', "..." and
\* $tag$...$tag$ text, the body of a dollar quote starting after its opening
\* tag and ending before the next occurrence of the tag
RECURSIVE C30_TopLevel(_, _)
C30_TopLevel(text, i) ==
  IF i > Len(text) THEN {}
  ELSE IF text[i] \in {"'", "\""}
       THEN C30_TopLevel(text, C30_QuoteEnd(text, i + 1, text[i]) + 1)
  ELSE IF text[i] = "$"
       THEN LET e == find(text, "$", i + 1)
                tag == SubSeq(text, i, e)
                closes == {k \in (e + 1)..Len(text) : startswith(text, tag, k)}
            IN IF e = 0 \/ \E k \in (i + 1)..(e - 1) : ~isalnum(text[k])
               THEN C30_TopLevel(text, i + 1)
               ELSE IF closes = {} THEN {}
               ELSE C30_TopLevel(text,
                      (CHOOSE k \in closes : \A h \in closes : k <= h) + Len(tag))
  ELSE (IF text[i] = ";" THEN {i} ELSE {}) \cup C30_TopLevel(text, i + 1)

\* the text cut at the positions of cuts, each piece trimmed, empty pieces
\* left out
RECURSIVE C30_SplitAt(_, _, _)
C30_SplitAt(text, from, cuts) ==
  LET later == {c \in cuts : c >= from}
      upto == IF later = {} THEN Len(text) + 1
              ELSE CHOOSE c \in later : \A d \in later : c <= d
      piece == strip(SubSeq(text, from, upto - 1))
      rest == IF later = {} THEN <<>> ELSE C30_SplitAt(text, upto + 1, cuts)
  IN IF piece # <<>> THEN <<piece>> \o rest ELSE rest

\* the characters of a list of statements, blanks and semicolons left out
RECURSIVE C30_Letters(_)
C30_Letters(s) ==
  IF s = <<>> THEN <<>>
  ELSE IF Head(s) \in {" ", ";"} THEN C30_Letters(Tail(s))
  ELSE <<Head(s)>> \o C30_Letters(Tail(s))
RECURSIVE C30_Joined(_)
C30_Joined(stmts) == IF stmts = <<>> THEN <<>> ELSE Head(stmts) \o C30_Joined(Tail(stmts))

\* C30: split_sql cuts the text at every semicolon outside single-quoted,
\* double-quoted and dollar-quoted text and at none inside; every statement
\* it returns is non-empty after trimming; no character but the separating
\* semicolons and the surrounding blanks is lost; the copy in the initial
\* migration returns the same list.
C30_SplitAtTopLevelSemicolons ==
  /\ split.statements # None =>
       LET stmts == Val(split.statements)
       IN /\ stmts = C30_SplitAt(split.sql_text, 1, C30_TopLevel(split.sql_text, 1))
          /\ \A k \in DOMAIN stmts : strip(stmts[k]) # <<>>
          /\ C30_Letters(C30_Joined(stmts)) = C30_Letters(split.sql_text)
  /\ split.statements # None /\ split.migration # None =>
       split.statements = split.migration

====
